---- MODULE Spec2Model ----
(***************************************************************************)
(* State-machine model of timsconvert/write.py: the chunked LC-MS mzML     *)
(* writer (write_lcms_mzml, write_lcms_chunk_to_mzml), the MALDI imaging   *)
(* imzML writer (write_maldi_ims_imzml), the MALDI dried-droplet writer    *)
(* with its three output topologies (write_maldi_dd_mzml) and the          *)
(* spectrum-count patch (update_spectra_count).                            *)
(*                                                                         *)
(* A file is a sequence of lines; a line is a record.  The file system fs  *)
(* maps the names of the files that exist to their contents.               *)
(***************************************************************************)
EXTENDS Integers, Sequences, FiniteSets, TLC

VARIABLES
    job,            \* which entry point runs: "lcms", "ims" or "maldi"
    data,           \* the acquisition: [Frames |-> table of frame rows,
                    \* SchemaType |-> "TSF" or "TDF"]
    args,           \* the call's arguments
    pc,             \* position in the running function
    err,            \* "" or the exception that ended the job
    fs,             \* file system: name -> sequence of lines
    writer,         \* [path, state]: the psims / pyimzml writer stream
    chunk,          \* the chunk cursor of the chunk loops
    j,              \* the loop variable j that the else branch reads
    ranges,         \* the (frame_start, frame_stop) pairs handed on so far
    scan_count,     \* the running count of written spectra
    num_of_spectra, \* the declared count
    cursor,         \* update_spectra_count: next line of the tmp file
    todo,           \* MALDI: records (individual) / labels (sample) left
    opened,         \* every path a writer was constructed for, in order
    reconciled      \* history: the final names a rename or count patch was
                    \* started for (lines 165 / 528), in order

vars == <<job, data, args, pc, err, fs, writer, chunk, j, ranges,
          scan_count, num_of_spectra, cursor, todo, opened, reconciled>>

(***************************************************************************)
(* Bounds.                                                                 *)
(***************************************************************************)
MaxId == 4
MaxChunk == 3
MaxSpots == 3
MaxPrecursorRows == 2
MaxCharge == 2

\* the frames of the acquisitions of the specification of the chunked jobs
MaxChunkedId == 3

\* the rows of each table of the acquisitions whose count is declared
MaxCountRows == 2

(***************************************************************************)
(* Python helpers.                                                         *)
(***************************************************************************)
Unbound == -1

Min(a, b) == IF a < b THEN a ELSE b

Max(a, b) == IF a < b THEN b ELSE a

\* s[lo:hi] with 0-based, non-negative lo and hi
PySlice(s, lo, hi) ==
    LET l == Min(lo, Len(s))
        h == Min(hi, Len(s))
    IN  IF h <= l THEN <<>> ELSE SubSeq(s, l + 1, h)

\* s[lo:-1]
PySliceToLast(s, lo) == PySlice(s, lo, Max(Len(s) - 1, 0))

\* s[lo:]
PySliceFrom(s, lo) == PySlice(s, lo, Len(s))

\* list(zip(a, b))
PyZip(a, b) == [i \in 1..Min(Len(a), Len(b)) |-> <<a[i], b[i]>>]

Last(s) == s[Len(s)]

(***************************************************************************)
(* The acquisition.  A row of the Frames table has an Id, an MsMsType      *)
(* (0: MS1), says whether its spectrum is non-empty (the parsers leave out *)
(* empty spectra), names the MS1 frame it was fragmented from (Parent, 0   *)
(* for MS1 rows and for MS2 rows before the first MS1 row), and for MALDI  *)
(* data the spot it was acquired at.  An MS2 row is a fragmentation with a *)
(* precursor ("ms2"), which has a charge state, or one with no resolvable  *)
(* precursor ("ms2_np").                                                   *)
(***************************************************************************)
RowKinds == {"absent", "ms1", "ms1_empty", "ms2"}

\* the row kinds of the acquisitions with fragmentations without precursor
PrecursorKinds == {"ms1", "ms2", "ms2_np"}

\* the values of charge_state: None, NaN or a number
NoneCharge == [t |-> "None", v |-> 0]

NanCharge == [t |-> "nan", v |-> 0]

NumberCharge(n) == [t |-> "number", v |-> n]

\* the spot of frame id: spots are acquired row by row, two to a row
CoordOf(id) == <<((id - 1) \div 2) + 1, ((id - 1) % 2) + 1>>

RECURSIVE ParentOf(_, _)
ParentOf(kinds, id) ==
    IF id = 0 THEN 0
    ELSE IF kinds[id] \in {"ms1", "ms1_empty"} THEN id
    ELSE ParentOf(kinds, id - 1)

FrameRow(kinds, id) ==
    [Id |-> id,
     MsMsType |-> IF kinds[id] = "ms2" THEN 8
                  ELSE IF kinds[id] = "ms2_np" THEN 2 ELSE 0,
     nonempty |-> kinds[id] # "ms1_empty",
     Parent |-> IF kinds[id] = "ms2" THEN ParentOf(kinds, id) ELSE 0,
     coord |-> CoordOf(id),
     no_precursor |-> kinds[id] = "ms2_np",
     charge_state |-> NoneCharge]

\* the Frames table with one row per id that is present, ascending by Id
FramesTable(kinds) ==
    LET n == Len(kinds)
        all == [id \in 1..n |-> FrameRow(kinds, id)]
    IN  SelectSeq(all, LAMBDA r : kinds[r.Id] # "absent")

\* the table with the charge state charges[id] for the precursor of frame id
WithCharges(table, charges) ==
    [i \in 1..Len(table) |->
        IF table[i].MsMsType = 8
        THEN [table[i] EXCEPT !.charge_state = charges[table[i].Id]]
        ELSE table[i]]

\* the values of a MonoisotopicMz cell: None, NaN or a number
NoneMz == [t |-> "None", v |-> 0]

NanMz == [t |-> "nan", v |-> 0]

NumberMz(n) == [t |-> "number", v |-> n]

\* bool(x) of a cell: None and 0.0 are false; NaN, not being 0, is true
Truthy(x) == x.t = "nan" \/ (x.t = "number" /\ x.v # 0)

\* the Precursors table of a TDF acquisition whose fragmentation frames each
\* have one precursor with a monoisotopic m/z
PrecursorsOf(frames) ==
    LET rows == SelectSeq(frames, LAMBDA r : r.MsMsType # 0)
    IN  [i \in 1..Len(rows) |-> [MonoisotopicMz |-> NumberMz(1)]]

\* INSTRUMENT_SOURCE_TYPE: the known values of InstrumentSourceType and the
\* sources they stand for
INSTRUMENT_SOURCE_TYPE ==
    [t \in {"1", "2"} |->
        IF t = "1" THEN "electrospray ionization"
        ELSE "atmospheric pressure chemical ionization"]

\* the GlobalMetadata of an acquisition of an electrospray instrument
EsiMetadata == [InstrumentSourceType |-> "1"]

\* data.analysis of an acquisition read with the given schema: TSF
\* acquisitions have no Precursors table
Analysis(frames, schema) ==
    IF schema = "TDF"
    THEN [Frames |-> frames, SchemaType |-> schema,
          GlobalMetadata |-> EsiMetadata,
          Precursors |-> PrecursorsOf(frames)]
    ELSE [Frames |-> frames, SchemaType |-> schema,
          GlobalMetadata |-> EsiMetadata]

\* the same acquisition made on a MALDI instrument: its GlobalMetadata names
\* a MaldiApplicationType
Maldi(d) ==
    [d EXCEPT !.GlobalMetadata =
        [InstrumentSourceType |-> d.GlobalMetadata.InstrumentSourceType,
         MaldiApplicationType |-> "SingleSpectra"]]

\* data.analysis['Frames']['Id'].to_list()
FrameIds(d) == [i \in 1..Len(d.Frames) |-> d.Frames[i].Id]

\* data.analysis['Frames'].shape[0]
RowCount(d) == Len(d.Frames)

\* data.ms1_frames: the ids of the MS1 frames, ascending
Ms1Frames(d) ==
    LET ms1 == SelectSeq(d.Frames, LAMBDA r : r.MsMsType = 0)
    IN  [i \in 1..Len(ms1) |-> ms1[i].Id]

\* parse_lcms_*: the records of the non-empty frames of [frame_start, frame_stop)
InRange(r, frame_start, frame_stop) == frame_start <= r.Id /\ r.Id < frame_stop

\* a spectrum written without precursor_info['spectrum_reference']
NoReference == 0

\* a record as the parsers return it; scan_number is assigned on writing,
\* parent_scan is the frame of the record handed to write_ms2_spectrum as
\* parent_scan (0: None), spectrum_reference the scan number its precursor
\* block then names and write_call the function the record is written with.
\* precursor_populated: target_mz, the isolation offsets and collision_energy
\* have values (they are None for a record with ms2_no_precursor)
ScanDict(r) ==
    [frame |-> r.Id,
     ms_level |-> IF r.MsMsType = 0 THEN 1 ELSE 2,
     parent_frame |-> r.Parent,
     coord |-> r.coord,
     ms2_no_precursor |-> r.no_precursor,
     precursor_populated |-> r.MsMsType # 0 /\ ~r.no_precursor,
     charge_state |-> r.charge_state,
     scan_number |-> 0,
     parent_scan |-> 0,
     spectrum_reference |-> NoReference,
     write_call |-> ""]

ParentScans(d, frame_start, frame_stop) ==
    LET rows == SelectSeq(d.Frames, LAMBDA r :
                    InRange(r, frame_start, frame_stop) /\ r.MsMsType = 0 /\ r.nonempty)
    IN  [i \in 1..Len(rows) |-> ScanDict(rows[i])]

ProductScans(d, frame_start, frame_stop) ==
    LET rows == SelectSeq(d.Frames, LAMBDA r :
                    InRange(r, frame_start, frame_stop) /\ r.MsMsType # 0 /\ r.nonempty)
    IN  [i \in 1..Len(rows) |-> ScanDict(rows[i])]

\* parse_maldi_*: one record per non-empty frame of the range
MaldiScans(d, frame_start, frame_stop) ==
    LET rows == SelectSeq(d.Frames, LAMBDA r :
                    InRange(r, frame_start, frame_stop) /\ r.nonempty)
    IN  [i \in 1..Len(rows) |-> ScanDict(rows[i])]

(***************************************************************************)
(* get_spectra_count: the declared count, from the tables alone.  The      *)
(* schema stands for the class of data; filter(None, ...) keeps the cells  *)
(* that are true.                                                          *)
(***************************************************************************)
get_spectra_count(d) ==
    IF d.SchemaType = "TDF"
    THEN LET ms1_count == Len(SelectSeq(d.Frames, LAMBDA r : r.MsMsType = 0))
             ms2_count ==
                IF "Precursors" \in DOMAIN d
                THEN Len(SelectSeq(d.Precursors,
                                   LAMBDA r : Truthy(r.MonoisotopicMz)))
                ELSE 0
         IN  ms1_count + ms2_count
    ELSE IF d.SchemaType = "TSF"
    THEN Len(d.Frames)
    ELSE LET ms1_count == Len(SelectSeq(d.Spectra, LAMBDA r : r.AcquisitionKey = 1))
             ms2_count == Len(SelectSeq(d.Spectra, LAMBDA r : r.AcquisitionKey = 2))
         IN  ms1_count + ms2_count

(***************************************************************************)
(* Lines of an output file.                                                *)
(***************************************************************************)
\* a line with nothing in it: k is the kind of line, num its count or scan
\* number, ref its data processing reference; for a spectrum lvl is its ms
\* level, frame the frame it was read from, pref the spectrum reference of
\* its precursor block, shape the function that wrote it, ce whether it has
\* a collision energy parameter, block its precursor block and charge the
\* charge field of that block (<<>>: none); contents is what a file
\* description says of the spectra, and mobilities whether a spectrum was
\* added with a mobility array
BlankLine ==
    [k |-> "", num |-> 0, ref |-> "", lvl |-> 0, frame |-> 0,
     pref |-> NoReference, shape |-> "", ce |-> FALSE, block |-> "none",
     charge |-> <<>>, contents |-> "", mobilities |-> FALSE, source |-> ""]

\* the spectral modes of a call
Modes == {"raw", "centroid", "profile"}

\* as FileContents, but only the mode centroid counts as centroided
RawIsProfile(mode) ==
    IF mode = "centroid" THEN "centroid spectrum" ELSE "profile spectrum"

\* lines 65-68: the entry of the file description for the mode
FileContents(mode) ==
    IF mode = "raw" \/ mode = "centroid" THEN "centroid spectrum"
    ELSE IF mode = "profile" THEN "profile spectrum"
    ELSE ""

\* writer.controlled_vocabularies()
ControlledVocabulariesLine == [BlankLine EXCEPT !.k = "cvList"]

\* write_mzml_metadata: the file description and what follows it
MetadataLine(mode) ==
    [BlankLine EXCEPT !.k = "fileDescription", !.contents = FileContents(mode)]

\* writer.run(id='run', ...)
RunLine == [BlankLine EXCEPT !.k = "run"]

\* as Preamble, but the metadata is written a second time inside the run
MetadataTwice(mode) ==
    <<ControlledVocabulariesLine, MetadataLine(mode), RunLine,
      MetadataLine(mode)>>

\* what a writer is given before its spectrum list, in the order of the
\* calls: controlled_vocabularies, write_mzml_metadata, run
Preamble(mode) ==
    <<ControlledVocabulariesLine, MetadataLine(mode), RunLine>>

\* lines 93-104: the source of the instrument configuration, and the
\* exception raised instead: KeyError when the metadata has no
\* InstrumentSourceType (line 93), UnboundLocalError when neither branch
\* bound source and line 104 reads it
InstrumentSource(metadata) ==
    IF "InstrumentSourceType" \notin DOMAIN metadata
        THEN [source |-> "", err |-> "KeyError"]
    ELSE IF /\ metadata.InstrumentSourceType \in DOMAIN INSTRUMENT_SOURCE_TYPE
            /\ "MaldiApplicationType" \notin DOMAIN metadata
        THEN [source |-> INSTRUMENT_SOURCE_TYPE[metadata.InstrumentSourceType],
              err |-> ""]
    ELSE IF "MaldiApplicationType" \in DOMAIN metadata
        THEN [source |-> "matrix-assisted laser desorption ionization", err |-> ""]
    ELSE [source |-> "", err |-> "UnboundLocalError"]

\* the preamble of an acquisition: its metadata carry the instrument source
WithSource(lines, d) ==
    [i \in 1..Len(lines) |->
        IF lines[i].k = "fileDescription"
        THEN [lines[i] EXCEPT !.source = InstrumentSource(d.GlobalMetadata).source]
        ELSE lines[i]]

\* write_mzml_metadata runs through: line 104 has a source to read
MetadataWritable(d) == InstrumentSource(d.GlobalMetadata).err = ""

\* the line spectrum_list(count=...) writes; the default data processing
\* reference is the one write_mzml_metadata registered, if it registered one
DataProcessingRef(barebones_metadata) ==
    IF barebones_metadata THEN "" ELSE "exportation"

SpectrumListLine(count, ref) ==
    [BlankLine EXCEPT !.k = "spectrumList", !.num = count, !.ref = ref]

\* write_ms1_spectrum: no precursor block; a collision energy parameter for
\* a record with ms2_no_precursor (lines 208-209)
write_ms1_spectrum(scan) ==
    [BlankLine EXCEPT !.k = "spectrum", !.num = scan.scan_number,
                      !.lvl = scan.ms_level, !.frame = scan.frame,
                      !.shape = "ms1", !.ce = scan.ms2_no_precursor]

\* as PrecursorCharge, but a charge of zero is written as well
ChargeWithZero(charge_state) ==
    IF charge_state.t = "number" THEN <<charge_state.v>> ELSE <<>>

\* lines 307-310: the charge field of the precursor block
PrecursorCharge(charge_state) ==
    IF charge_state.t = "number" /\ charge_state.v # 0
    THEN <<charge_state.v>> ELSE <<>>

\* write_ms2_spectrum: the precursor block of lines 294-313 is built from
\* whatever the record holds
write_ms2_spectrum(scan) ==
    [BlankLine EXCEPT !.k = "spectrum", !.num = scan.scan_number,
                      !.lvl = scan.ms_level, !.frame = scan.frame,
                      !.shape = "ms2",
                      !.block = IF scan.precursor_populated
                                THEN "complete" ELSE "partial",
                      !.charge = PrecursorCharge(scan.charge_state),
                      !.pref = scan.spectrum_reference]

\* imzml_file.addSpectrum(mz_array, intensity_array, coord), with
\* mobilities=scan_dict['mobility_array'] at line 856
addSpectrum(scan, mobilities) ==
    [BlankLine EXCEPT !.k = "spectrum", !.num = scan.scan_number,
                      !.lvl = scan.ms_level, !.frame = scan.frame,
                      !.mobilities = mobilities]

\* the line the write call chosen for the record writes
SpectrumLine(scan) ==
    IF scan.write_call = "write_ms1_spectrum" THEN write_ms1_spectrum(scan)
    ELSE IF scan.write_call = "write_ms2_spectrum" THEN write_ms2_spectrum(scan)
    ELSE addSpectrum(scan, scan.write_call = "addSpectrum_mobilities")

\* the closing tags the writer flushes when its with-block is left
ClosingLine == [BlankLine EXCEPT !.k = "closing"]

\* the content of a file that was there before the job
OldFile == <<[BlankLine EXCEPT !.k = "old"], ClosingLine>>

Spectra(lines) == SelectSeq(lines, LAMBDA l : l.k = "spectrum")

Headers(lines) == SelectSeq(lines, LAMBDA l : l.k = "spectrumList")

(***************************************************************************)
(* write_lcms_chunk_to_mzml: the records written for one frame range, in   *)
(* write order, each with the scan_number it is given.                     *)
(***************************************************************************)
\* as NumberAndWrite, but every record gets the number count + 1: the counter
\* is not advanced from one record to the next
NumberWithoutCounting(scans, count) ==
    [i \in 1..Len(scans) |-> [scans[i] EXCEPT !.scan_number = count + 1]]

\* scan_count += 1; scan['scan_number'] = scan_count; write
RECURSIVE NumberAndWrite(_, _)
NumberAndWrite(scans, count) ==
    IF scans = <<>> THEN <<>>
    ELSE <<[Head(scans) EXCEPT !.scan_number = count + 1]>>
         \o NumberAndWrite(Tail(scans), count + 1)

\* the count of the last range alone: the count handed in is forgotten
CountOfRange(count, written) == Len(written)

\* line 418: the scan_count write_lcms_chunk_to_mzml returns, the count it
\* was handed advanced once for every record written
ReturnedCount(count, written) == count + Len(written)

\* lines 391-401: each parent followed by the products that name it, each
\* product written with parent_scan=parent
RECURSIVE ParentsWithProducts(_, _)
ParentsWithProducts(parent_scans, product_scans) ==
    IF parent_scans = <<>> THEN <<>>
    ELSE LET parent == Head(parent_scans)
             products == SelectSeq(product_scans,
                             LAMBDA i : i.parent_frame = parent.frame)
         IN  <<[parent EXCEPT !.write_call = "write_ms1_spectrum"]>>
             \o [i \in 1..Len(products) |->
                    [products[i] EXCEPT !.parent_scan = parent.frame,
                                        !.write_call = "write_ms2_spectrum"]]
             \o ParentsWithProducts(Tail(parent_scans), product_scans)

\* lines 634-647, 703-717 and 789-802: the write call for a MALDI record
DispatchOnLevel(scan) ==
    IF scan.ms_level = 1 THEN "write_ms1_spectrum" ELSE "write_ms2_spectrum"

\* lines 411-417: the write call for a record of the third branch
DispatchOnPrecursor(scan) ==
    IF scan.ms_level = 1 THEN "write_ms1_spectrum"
    ELSE IF scan.ms2_no_precursor THEN "write_ms1_spectrum"
    ELSE "write_ms2_spectrum"

\* as ChunkWriteOrder, but ms2_only is not looked at
WritesParentsToo(parent_scans, product_scans, ms2_only) ==
    ParentsWithProducts(parent_scans, product_scans)

\* lines 389-417: the records of a chunk in the order they are written
ChunkWriteOrder(parent_scans, product_scans, ms2_only) ==
    IF ~ms2_only /\ product_scans # <<>>
        THEN ParentsWithProducts(parent_scans, product_scans)
    ELSE IF ms2_only \/ parent_scans = <<>>
        THEN [i \in 1..Len(product_scans) |->
                [product_scans[i] EXCEPT !.write_call = "write_ms2_spectrum"]]
    ELSE IF product_scans = <<>>
        THEN [i \in 1..Len(parent_scans) |->
                [parent_scans[i] EXCEPT
                    !.write_call = DispatchOnPrecursor(parent_scans[i])]]
    ELSE <<>>

\* as SpectrumReference, but the reference is the spectrum's own scan number
ReferenceToItself(numbered, scan) ==
    IF scan.parent_scan = 0 THEN NoReference ELSE scan.scan_number

\* lines 312-313: 'scan=' + str(parent_scan['scan_number']) when a parent_scan
\* is handed over, nothing otherwise; numbered are the records of the chunk
SpectrumReference(numbered, scan) ==
    IF scan.parent_scan = 0 THEN NoReference
    ELSE LET k == CHOOSE k \in 1..Len(numbered) :
                        numbered[k].frame = scan.parent_scan
         IN  numbered[k].scan_number

write_lcms_chunk_to_mzml(d, frame_start, frame_stop, count, ms2_only) ==
    LET numbered ==
            NumberAndWrite(ChunkWriteOrder(ParentScans(d, frame_start, frame_stop),
                                           ProductScans(d, frame_start, frame_stop),
                                           ms2_only),
                           count)
    IN  [i \in 1..Len(numbered) |->
            [numbered[i] EXCEPT
                !.spectrum_reference = SpectrumReference(numbered, numbered[i])]]

\* the records written for a list of ranges, the count threaded through
RECURSIVE WriteChunkList(_, _, _, _)
WriteChunkList(d, chunk_list, count, ms2_only) ==
    IF chunk_list = <<>> THEN <<>>
    ELSE LET written == write_lcms_chunk_to_mzml(d, Head(chunk_list)[1],
                                                 Head(chunk_list)[2], count, ms2_only)
         IN  written \o WriteChunkList(d, Tail(chunk_list),
                                       count + Len(written), ms2_only)

(***************************************************************************)
(* The chunk lists of the two chunk loops.                                 *)
(***************************************************************************)
\* the loop condition: chunk + chunk_size + 1 <= len(frames)
MoreFullChunks(frames, c, chunk_size) == c + chunk_size + 1 <= Len(frames)

\* as ChunkPlus, but the cursor stays where it is
ChunkAsItIs(c, chunk_size) == c

\* chunk += chunk_size (lines 499 and 980)
ChunkPlus(c, chunk_size) == c + chunk_size

\* as FullChunkList, but one range per chunk, from the chunk's first id to the
\* id chunk_size positions later
OneRangePerChunk(frames, c, chunk_size) ==
    <<<<frames[c + 1], frames[c + chunk_size + 1]>>>>

\* lines 482-485 / 967-969
FullChunkList(frames, c, chunk_size) ==
    PyZip(PySlice(frames, c, c + chunk_size),
          PySlice(frames, c + 1, c + chunk_size + 1))

\* lines 502-504 / 982-984: the pairs the else branch zips
LastChunkPairs(frames, c) ==
    PyZip(PySliceToLast(frames, c), PySliceFrom(frames, c + 1))

\* the value j holds after a for i, j in zip(...) loop over pairs
JAfter(pairs, jBefore) == IF pairs = <<>> THEN jBefore ELSE Last(pairs)[2]

\* lines 505-508 / 985: chunk_list.append((j, rows + 1))
LastChunkList(frames, c, jBefore, rows) ==
    LastChunkPairs(frames, c)
    \o <<<<JAfter(LastChunkPairs(frames, c), jBefore), rows + 1>>>>

(***************************************************************************)
(* Files.                                                                  *)
(***************************************************************************)
\* os.path.splitext(os.path.join(outdir, outfile))[0] + '_tmp.mzML'
TmpFile == <<"outfile_tmp", 0, 0>>

\* os.path.join(outdir, outfile)
FinalFile == <<"outfile", 0, 0>>

NoFiles == [n \in {} |-> <<>>]

Exists(f, name) == name \in DOMAIN f

\* open(name, 'w') and the writers' constructors: an empty file under name
Create(f, name) ==
    [n \in DOMAIN f \cup {name} |-> IF n = name THEN <<>> ELSE f[n]]

AppendLines(f, name, lines) == [f EXCEPT ![name] = @ \o lines]

\* os.remove
Remove(f, name) == [n \in DOMAIN f \ {name} |-> f[n]]

\* os.rename
Rename(f, from, to) ==
    [n \in (DOMAIN f \ {from}) \cup {to} |-> IF n = to THEN f[from] ELSE f[n]]

NoWriter == [path |-> <<"", 0, 0>>, state |-> "none", config |-> <<>>]

\* MzMLWriter(path, close=True)
MzMLWriter(path) == [path |-> path, state |-> "open", config |-> <<>>]

\* lines 911-915: the centroided status of an imaging job
Centroided(mode) ==
    IF mode = "profile" THEN FALSE
    ELSE mode = "centroid" \/ mode = "raw"

\* lines 936-937 and 850-851: profile mode sets exclude_mobility
ExcludeMobility(mode, exclude_mobility) ==
    IF mode = "profile" THEN TRUE ELSE exclude_mobility

\* as IncludeMobility, but the mode is not looked at
IncludeMobilityInProfile(schema, mode, exclude_mobility) ==
    schema = "TDF" /\ ~exclude_mobility

\* lines 925-960: the include_mobility the ImzMLWriter is constructed with
IncludeMobility(schema, mode, exclude_mobility) ==
    IF schema = "TSF" THEN FALSE
    ELSE ~ExcludeMobility(mode, exclude_mobility)

\* ImzMLWriter(path, ..., spec_type=centroided, ..., include_mobility=...)
ImzMLWriter(path, spec_type, include_mobility) ==
    [path |-> path, state |-> "open",
     config |-> <<[spec_type |-> spec_type,
                   include_mobility |-> include_mobility]>>]

\* a with-block of the writer left by an exception: the stream is closed; the
\* writer library decides whether the closing tags are still flushed
ClosedByException(f, w, flushed) ==
    IF flushed THEN AppendLines(f, w.path, <<ClosingLine>>) ELSE f

(***************************************************************************)
(* Initial states: one call of one entry point.                            *)
(***************************************************************************)
ChunkSizes == 1..MaxChunk

\* GlobalMetadata['SchemaType'] of the acquisitions an imaging job is given
SchemaTypes == {"TSF", "TDF"}

LcmsArgs(chunk_size, ms2_only, barebones_metadata) ==
    [chunk_size |-> chunk_size, ms2_only |-> ms2_only,
     barebones_metadata |-> barebones_metadata,
     maldi_output_file |-> "", plate_map |-> "",
     plate_map_dict |-> [c \in {} |-> ""],
     mode |-> "centroid", exclude_mobility |-> FALSE]

\* the same call with another mode and exclude_mobility flag
WithMode(a, mode, exclude_mobility) ==
    [a EXCEPT !.mode = mode, !.exclude_mobility = exclude_mobility]

\* the acquisition of ten MS1 frames with ids 1..10
TenMs1Frames == Analysis(FramesTable([id \in 1..10 |-> "ms1"]), "TDF")

Locals ==
    /\ pc = "start"
    /\ err = ""
    /\ writer = NoWriter
    /\ chunk = 0
    /\ j = Unbound
    /\ ranges = <<>>
    /\ scan_count = 0
    /\ num_of_spectra = 0
    /\ cursor = 0
    /\ todo = <<>>
    /\ opened = <<>>
    /\ reconciled = <<>>

\* the charge states a precursor may have
Charges == {NoneCharge, NanCharge} \cup {NumberCharge(n) : n \in 0..MaxCharge}

\* acquisitions of frames 1..MaxPrecursorRows with fragmentations with and
\* without precursor, each precursor with a charge state
PrecursorTables ==
    {Analysis(WithCharges(FramesTable(kinds), charges), "TDF") :
        kinds \in [1..MaxPrecursorRows -> PrecursorKinds],
        charges \in [1..MaxPrecursorRows -> Charges]}

InitLcms ==
    /\ job = "lcms"
    /\ \/ /\ \/ /\ \E kinds \in [1..MaxId -> RowKinds] :
                        data = Analysis(FramesTable(kinds), "TDF")
                /\ \E cs \in ChunkSizes, m \in BOOLEAN, b \in BOOLEAN :
                        args = LcmsArgs(cs, m, b)
             \/ /\ data = TenMs1Frames
                /\ \E cs \in ChunkSizes, m \in BOOLEAN, b \in BOOLEAN,
                      mode \in Modes :
                        args = WithMode(LcmsArgs(cs, m, b), mode, FALSE)
          /\ \E old \in BOOLEAN :
                fs = IF old THEN [n \in {FinalFile} |-> OldFile] ELSE NoFiles
       \/ /\ data \in PrecursorTables
          /\ \E m \in BOOLEAN : args = LcmsArgs(1, m, FALSE)
          /\ fs = NoFiles
    /\ Locals

InitIms ==
    /\ job = "ims"
    /\ \E kinds \in [1..MaxId -> RowKinds \ {"ms2"}], schema \in SchemaTypes :
            data = Maldi(Analysis(FramesTable(kinds), schema))
    /\ \/ \E cs \in ChunkSizes :
                /\ args = LcmsArgs(cs, FALSE, FALSE)
                /\ data.SchemaType = "TDF"
       \/ \E mode \in Modes, exclude_mobility \in BOOLEAN :
                args = WithMode(LcmsArgs(1, FALSE, FALSE), mode, exclude_mobility)
    /\ fs = NoFiles
    /\ Locals

\* the plate map files a call may name: none, a path that does not exist, an
\* existing file that is no .csv, and a valid one
PlateMapPaths == {"", "missing.csv", "map.txt", "map.csv"}

\* os.path.exists(plate_map)
PathExists(path) == path \in {"map.txt", "map.csv"}

\* os.path.splitext(plate_map)[1] == '.csv'
IsCsv(path) == path \in {"missing.csv", "map.csv"}

\* what parse_maldi_plate_map returns: spot -> label; "nan" is the float NaN
\* of a spot whose label cell is empty
Labels == {"A", "B", "nan"}

PlateMapDict(cells) ==
    [c \in {CoordOf(i) : i \in {x \in DOMAIN cells : cells[x] # "unmapped"}} |->
        cells[CHOOSE i \in DOMAIN cells : CoordOf(i) = c]]

NoPlateMapDict == [c \in {} |-> ""]

MaldiArgs(topology, ms2_only, barebones_metadata, plate_map, dict) ==
    [chunk_size |-> 0, ms2_only |-> ms2_only,
     barebones_metadata |-> barebones_metadata,
     maldi_output_file |-> topology, plate_map |-> plate_map,
     plate_map_dict |-> dict,
     mode |-> "centroid", exclude_mobility |-> FALSE]

\* dried-droplet acquisitions: frames 1..n, one per spot
MaldiTables ==
    UNION {{Maldi(Analysis(FramesTable(kinds), "TDF")) :
                kinds \in [1..n -> RowKinds \ {"absent"}]} : n \in 0..MaxSpots}

\* the acquisition of four MS1 spots 1,1 / 1,2 / 2,1 / 2,2 and the plate map
\* that labels them A, A, B and NaN
FourSpots ==
    Maldi(Analysis(FramesTable([id \in 1..4 |-> "ms1"]), "TDF"))

FourSpotPlateMap == PlateMapDict(<<"A", "A", "B", "nan">>)

InitMaldi ==
    /\ job = "maldi"
    /\ \/ /\ data \in MaldiTables
          /\ \/ \E m \in BOOLEAN, b \in BOOLEAN :
                    args = MaldiArgs("combined", m, b, "", NoPlateMapDict)
             \/ \E t \in {"individual", "sample"}, m \in BOOLEAN,
                   path \in PlateMapPaths \ {"map.csv"} :
                    args = MaldiArgs(t, m, FALSE, path, NoPlateMapDict)
             \/ /\ Len(data.Frames) = MaxSpots
                /\ \E t \in {"individual", "sample"}, m \in BOOLEAN,
                      cells \in [1..MaxSpots -> Labels \cup {"unmapped"}] :
                        args = MaldiArgs(t, m, FALSE, "map.csv",
                                         PlateMapDict(cells))
       \/ /\ data = FourSpots
          /\ \E mode \in Modes :
                \/ \E t \in {"individual", "sample"} :
                        args = WithMode(MaldiArgs(t, FALSE, FALSE, "map.csv",
                                                  FourSpotPlateMap), mode, FALSE)
                \/ args = WithMode(MaldiArgs("combined", FALSE, FALSE, "",
                                             NoPlateMapDict), mode, FALSE)
       \/ /\ data \in {Maldi(d) : d \in PrecursorTables}
          /\ \/ \E m \in BOOLEAN :
                    args = MaldiArgs("combined", m, FALSE, "", NoPlateMapDict)
             \/ \E t \in {"individual", "sample"} :
                    args = MaldiArgs(t, FALSE, FALSE, "map.csv",
                                     PlateMapDict([i \in 1..MaxPrecursorRows |-> "A"]))
    /\ \E old \in BOOLEAN :
            fs = IF old /\ args.maldi_output_file = "combined"
                 THEN [n \in {FinalFile} |-> OldFile] ELSE NoFiles
    /\ Locals

(***************************************************************************)
(* write_lcms_mzml.                                                        *)
(***************************************************************************)
\* line 460
LcmsOpenWriter ==
    /\ job = "lcms" /\ pc = "start"
    /\ writer' = MzMLWriter(TmpFile)
    /\ opened' = Append(opened, TmpFile)
    /\ fs' = Create(fs, TmpFile)
    /\ pc' = "opened"
    /\ UNCHANGED <<job, data, args, reconciled, err, chunk, j, ranges, scan_count,
                   num_of_spectra, cursor, todo>>

\* lines 462-479
LcmsBeginSpectrumList ==
    /\ job = "lcms" /\ pc = "opened"
    /\ MetadataWritable(data)
    /\ scan_count' = 0
    /\ num_of_spectra' = get_spectra_count(data)
    /\ fs' = AppendLines(fs, writer.path,
                WithSource(Preamble(args.mode), data) \o
                <<SpectrumListLine(get_spectra_count(data),
                                   DataProcessingRef(args.barebones_metadata))>>)
    /\ chunk' = 0
    /\ pc' = "loop"
    /\ UNCHANGED <<job, data, args, reconciled, err, writer, j, ranges, cursor, todo, opened>>

\* lines 481-499: one iteration of the while loop
LcmsWhileChunk ==
    /\ job = "lcms" /\ pc = "loop"
    /\ MoreFullChunks(Ms1Frames(data), chunk, args.chunk_size)
    /\ LET chunk_list == FullChunkList(Ms1Frames(data), chunk, args.chunk_size)
           written == WriteChunkList(data, chunk_list, scan_count, args.ms2_only)
       IN  /\ ranges' = ranges \o chunk_list
           /\ j' = JAfter(chunk_list, j)
           /\ fs' = AppendLines(fs, writer.path,
                        [i \in 1..Len(written) |-> SpectrumLine(written[i])])
           /\ scan_count' = ReturnedCount(scan_count, written)
    /\ chunk' = ChunkPlus(chunk, args.chunk_size)
    /\ UNCHANGED <<job, data, args, reconciled, pc, err, writer, num_of_spectra, cursor,
                   todo, opened>>

\* lines 501-521: the else branch of the while loop, run when its condition
\* fails; reading j before any pair bound it raises UnboundLocalError, which
\* leaves the three with-blocks
LcmsLastChunk ==
    /\ job = "lcms" /\ pc = "loop"
    /\ ~MoreFullChunks(Ms1Frames(data), chunk, args.chunk_size)
    /\ LET pairs == LastChunkPairs(Ms1Frames(data), chunk)
       IN  IF JAfter(pairs, j) = Unbound
           THEN /\ pc' = "raised"
                /\ err' = "UnboundLocalError"
                /\ writer' = [writer EXCEPT !.state = "closed"]
                /\ \E flushed \in BOOLEAN :
                        fs' = ClosedByException(fs, writer, flushed)
                /\ UNCHANGED <<j, ranges, scan_count>>
           ELSE LET chunk_list == LastChunkList(Ms1Frames(data), chunk, j,
                                                RowCount(data))
                    written == WriteChunkList(data, chunk_list, scan_count,
                                              args.ms2_only)
                IN  /\ ranges' = ranges \o chunk_list
                    /\ j' = JAfter(pairs, j)
                    /\ fs' = AppendLines(fs, writer.path,
                                [i \in 1..Len(written) |-> SpectrumLine(written[i])])
                    /\ scan_count' = ReturnedCount(scan_count, written)
                    /\ pc' = "with_exit"
                    /\ UNCHANGED <<err, writer>>
    /\ UNCHANGED <<job, data, args, reconciled, chunk, num_of_spectra, cursor, todo, opened>>

\* leaving the with-blocks of lines 462-478 normally
LcmsCloseWriter ==
    /\ job = "lcms" /\ pc = "with_exit"
    /\ fs' = AppendLines(fs, writer.path, <<ClosingLine>>)
    /\ writer' = [writer EXCEPT !.state = "closed"]
    /\ pc' = "reconcile"
    /\ UNCHANGED <<job, data, args, reconciled, err, chunk, j, ranges, scan_count,
                   num_of_spectra, cursor, todo, opened>>

\* as LcmsUpdateCount, but taken before the with-blocks are left: the count
\* patch is called while the writer stream is still open
UpdateCountInsideWith ==
    /\ job = "lcms" /\ pc = "with_exit"
    /\ num_of_spectra # scan_count
    /\ pc' = "update"
    /\ UNCHANGED <<job, data, args, reconciled, err, fs, writer, chunk, j, ranges,
                   scan_count, num_of_spectra, cursor, todo, opened>>

\* lines 523-525
LcmsUpdateCount ==
    /\ job = "lcms" /\ pc = "reconcile"
    /\ num_of_spectra # scan_count
    /\ pc' = "update"
    /\ UNCHANGED <<job, data, args, reconciled, err, fs, writer, chunk, j, ranges,
                   scan_count, num_of_spectra, cursor, todo, opened>>

\* lines 526-532
LcmsRename ==
    /\ job = "lcms" /\ pc = "reconcile"
    /\ num_of_spectra = scan_count
    /\ fs' = Rename(IF Exists(fs, FinalFile) THEN Remove(fs, FinalFile) ELSE fs,
                    TmpFile, FinalFile)
    /\ pc' = "done"
    /\ reconciled' = Append(reconciled, FinalFile)
    /\ UNCHANGED <<job, data, args, err, writer, chunk, j, ranges,
                   scan_count, num_of_spectra, cursor, todo, opened>>

(***************************************************************************)
(* update_spectra_count(outdir, outfile, num_of_spectra, scan_count).      *)
(***************************************************************************)
\* as ReplaceCount, but the count of every spectrum-list header is replaced,
\* whatever count and data processing reference the header carries
ReplaceAnyHeader(line, num, count) ==
    IF line.k = "spectrumList" THEN [line EXCEPT !.num = count] ELSE line

\* line.replace(header for num, header for count)
ReplaceCount(line, num, count) ==
    IF line = SpectrumListLine(num, "exportation")
    THEN SpectrumListLine(count, "exportation")
    ELSE line

\* lines 165-168
UpdateOpen ==
    /\ pc = "update"
    /\ fs' = Create(IF Exists(fs, FinalFile) THEN Remove(fs, FinalFile) ELSE fs,
                    FinalFile)
    /\ cursor' = 1
    /\ pc' = "copy"
    /\ reconciled' = Append(reconciled, FinalFile)
    /\ UNCHANGED <<job, data, args, err, writer, chunk, j, ranges,
                   scan_count, num_of_spectra, todo, opened>>

\* lines 169-171: one line of the loop
UpdateCopyLine ==
    /\ pc = "copy"
    /\ cursor <= Len(fs[TmpFile])
    /\ fs' = AppendLines(fs, FinalFile,
                <<ReplaceCount(fs[TmpFile][cursor], num_of_spectra, scan_count)>>)
    /\ cursor' = cursor + 1
    /\ UNCHANGED <<job, data, args, reconciled, pc, err, writer, chunk, j, ranges,
                   scan_count, num_of_spectra, todo, opened>>

\* line 172, and the return to the caller (lines 531 / 651)
UpdateRemoveTmp ==
    /\ pc = "copy"
    /\ cursor > Len(fs[TmpFile])
    /\ fs' = Remove(fs, TmpFile)
    /\ pc' = "done"
    /\ UNCHANGED <<job, data, args, reconciled, err, writer, chunk, j, ranges,
                   scan_count, num_of_spectra, cursor, todo, opened>>

\* os.remove of line 172 fails (the temporary file is locked or was removed
\* by someone else): the exception leaves update_spectra_count and its caller
UpdateRemoveRaises ==
    /\ pc = "copy"
    /\ cursor > Len(fs[TmpFile])
    /\ pc' = "raised"
    /\ err' = "PermissionError"
    /\ UNCHANGED <<job, data, args, reconciled, fs, writer, chunk, j, ranges,
                   scan_count, num_of_spectra, cursor, todo, opened>>

\* a write of line 170 fails (the disk is full, the file is locked)
UpdateRaises ==
    /\ pc = "copy"
    /\ cursor <= Len(fs[TmpFile])
    /\ pc' = "raised"
    /\ err' = "OSError"
    /\ UNCHANGED <<job, data, args, reconciled, fs, writer, chunk, j, ranges,
                   scan_count, num_of_spectra, cursor, todo, opened>>

(***************************************************************************)
(* write_maldi_ims_imzml and write_maldi_ims_chunk_to_imzml.               *)
(***************************************************************************)
\* the addSpectrum call of the branch taken: line 839 for TSF data; for TDF
\* data line 856 if not exclude_mobility, after profile mode has set it
\* (lines 850-851), line 862 otherwise
AddSpectrumCall(schema, mode, exclude_mobility) ==
    IF schema = "TSF" THEN "addSpectrum"
    ELSE IF ~ExcludeMobility(mode, exclude_mobility)
         THEN "addSpectrum_mobilities"
         ELSE "addSpectrum"

\* imzml_file.addSpectrum for every record of the range
write_maldi_ims_chunk_to_imzml(d, frame_start, frame_stop, mode, exclude_mobility) ==
    LET list == MaldiScans(d, frame_start, frame_stop)
    IN  [i \in 1..Len(list) |->
            [list[i] EXCEPT !.write_call =
                AddSpectrumCall(d.SchemaType, mode, exclude_mobility)]]

RECURSIVE AddChunkList(_, _, _, _)
AddChunkList(d, chunk_list, mode, exclude_mobility) ==
    IF chunk_list = <<>> THEN <<>>
    ELSE write_maldi_ims_chunk_to_imzml(d, Head(chunk_list)[1],
                                        Head(chunk_list)[2], mode,
                                        exclude_mobility)
         \o AddChunkList(d, Tail(chunk_list), mode, exclude_mobility)

\* lines 923-965
ImsOpenWriter ==
    /\ job = "ims" /\ pc = "start"
    /\ writer' = ImzMLWriter(FinalFile, Centroided(args.mode),
                              IncludeMobility(data.SchemaType, args.mode,
                                              args.exclude_mobility))
    /\ opened' = Append(opened, FinalFile)
    /\ fs' = Create(fs, FinalFile)
    /\ chunk' = 0
    /\ pc' = "loop"
    /\ UNCHANGED <<job, data, args, reconciled, err, j, ranges, scan_count,
                   num_of_spectra, cursor, todo>>

\* lines 966-980
ImsWhileChunk ==
    /\ job = "ims" /\ pc = "loop"
    /\ MoreFullChunks(FrameIds(data), chunk, args.chunk_size)
    /\ LET chunk_list == FullChunkList(FrameIds(data), chunk, args.chunk_size)
           added == AddChunkList(data, chunk_list, args.mode,
                                         args.exclude_mobility)
       IN  /\ ranges' = ranges \o chunk_list
           /\ j' = JAfter(chunk_list, j)
           /\ fs' = AppendLines(fs, writer.path,
                        [i \in 1..Len(added) |-> SpectrumLine(added[i])])
    /\ chunk' = ChunkPlus(chunk, args.chunk_size)
    /\ UNCHANGED <<job, data, args, reconciled, pc, err, writer, scan_count,
                   num_of_spectra, cursor, todo, opened>>

\* lines 981-995
ImsLastChunk ==
    /\ job = "ims" /\ pc = "loop"
    /\ ~MoreFullChunks(FrameIds(data), chunk, args.chunk_size)
    /\ LET pairs == LastChunkPairs(FrameIds(data), chunk)
       IN  IF JAfter(pairs, j) = Unbound
           THEN /\ pc' = "raised"
                /\ err' = "UnboundLocalError"
                /\ writer' = [writer EXCEPT !.state = "closed"]
                /\ \E flushed \in BOOLEAN :
                        fs' = ClosedByException(fs, writer, flushed)
                /\ UNCHANGED <<j, ranges>>
           ELSE LET chunk_list == LastChunkList(FrameIds(data), chunk, j,
                                                RowCount(data))
                    added == AddChunkList(data, chunk_list, args.mode,
                                         args.exclude_mobility)
                IN  /\ ranges' = ranges \o chunk_list
                    /\ j' = JAfter(pairs, j)
                    /\ fs' = AppendLines(fs, writer.path,
                                [i \in 1..Len(added) |-> SpectrumLine(added[i])])
                    /\ pc' = "with_exit"
                    /\ UNCHANGED <<err, writer>>
    /\ UNCHANGED <<job, data, args, reconciled, chunk, scan_count, num_of_spectra,
                   cursor, todo, opened>>

\* leaving the with-block of line 963 normally, and line 996
ImsCloseWriter ==
    /\ job = "ims" /\ pc = "with_exit"
    /\ fs' = AppendLines(fs, writer.path, <<ClosingLine>>)
    /\ writer' = [writer EXCEPT !.state = "closed"]
    /\ pc' = "done"
    /\ UNCHANGED <<job, data, args, reconciled, err, chunk, j, ranges, scan_count,
                   num_of_spectra, cursor, todo, opened>>

(***************************************************************************)
(* write_maldi_dd_mzml.                                                    *)
(***************************************************************************)
\* as PassedOver, but no record is ever passed over
NeverPassedOver(scan, ms2_only) == FALSE

\* ms2_only and scan_dict['ms_level'] == 1: the record is passed over
PassedOver(scan, ms2_only) == ms2_only /\ scan.ms_level = 1

\* parse_maldi_*(data, 1, num_frames, ...), num_frames = shape[0] + 1
list_of_scan_dicts(d) == MaldiScans(d, 1, RowCount(d) + 1)

\* lines 580-583
CombinedOpenWriter ==
    /\ job = "maldi" /\ pc = "start"
    /\ args.maldi_output_file = "combined"
    /\ writer' = MzMLWriter(TmpFile)
    /\ opened' = Append(opened, TmpFile)
    /\ fs' = Create(fs, TmpFile)
    /\ pc' = "opened"
    /\ UNCHANGED <<job, data, args, reconciled, err, chunk, j, ranges, scan_count,
                   num_of_spectra, cursor, todo>>

\* lines 585-626
CombinedBeginSpectrumList ==
    /\ job = "maldi" /\ pc = "opened"
    /\ MetadataWritable(data)
    /\ scan_count' = 0
    /\ num_of_spectra' = Len(FrameIds(data))
    /\ fs' = AppendLines(fs, writer.path,
                WithSource(Preamble(args.mode), data) \o
                <<SpectrumListLine(Len(FrameIds(data)),
                                   DataProcessingRef(args.barebones_metadata))>>)
    /\ todo' = list_of_scan_dicts(data)
    /\ pc' = "records"
    /\ UNCHANGED <<job, data, args, reconciled, err, writer, chunk, j, ranges, cursor, opened>>

\* lines 628-647: one record of the loop
CombinedWriteRecord ==
    /\ job = "maldi" /\ pc = "records"
    /\ todo # <<>>
    /\ IF PassedOver(Head(todo), args.ms2_only)
       THEN UNCHANGED <<fs, scan_count>>
       ELSE /\ scan_count' = scan_count + 1
            /\ fs' = AppendLines(fs, writer.path,
                        <<SpectrumLine([Head(todo) EXCEPT
                                            !.scan_number = scan_count + 1,
                                            !.write_call =
                                                DispatchOnLevel(Head(todo))])>>)
    /\ todo' = Tail(todo)
    /\ UNCHANGED <<job, data, args, reconciled, pc, err, writer, chunk, j, ranges,
                   num_of_spectra, cursor, opened>>

\* leaving the with-blocks of lines 585-601, and lines 649-650
CombinedCloseWriter ==
    /\ job = "maldi" /\ pc = "records"
    /\ todo = <<>>
    /\ fs' = AppendLines(fs, writer.path, <<ClosingLine>>)
    /\ writer' = [writer EXCEPT !.state = "closed"]
    /\ pc' = "update"
    /\ UNCHANGED <<job, data, args, reconciled, err, chunk, j, ranges, scan_count,
                   num_of_spectra, cursor, todo, opened>>

\* lines 654-656 and 723-725 when the plate map is '', does not exist or is
\* no .csv: no branch is taken and the function returns
PlateMapUsable(path) == path # "" /\ PathExists(path) /\ IsCsv(path)

NoPlateMapReturn ==
    /\ job = "maldi" /\ pc = "start"
    /\ args.maldi_output_file \in {"individual", "sample"}
    /\ ~PlateMapUsable(args.plate_map)
    /\ pc' = "done"
    /\ UNCHANGED <<job, data, args, reconciled, err, fs, writer, chunk, j, ranges,
                   scan_count, num_of_spectra, cursor, todo, opened>>

\* os.path.join(outdir, plate_map_dict[coord] + '_' + coord + '.mzML')
IndividualFile(label, coord) == <<label, coord[1], coord[2]>>

\* os.path.join(outdir, key + '.mzML')
SampleFile(key) == <<key, 0, 0>>

\* lines 654-685
IndividualParse ==
    /\ job = "maldi" /\ pc = "start"
    /\ args.maldi_output_file = "individual"
    /\ PlateMapUsable(args.plate_map)
    /\ todo' = list_of_scan_dicts(data)
    /\ pc' = "next_file"
    /\ UNCHANGED <<job, data, args, reconciled, err, fs, writer, chunk, j, ranges,
                   scan_count, num_of_spectra, cursor, opened>>

\* lines 687-691: the file name of the next record and its writer; a spot the
\* plate map lacks raises KeyError, a NaN label raises TypeError (float + str)
IndividualOpenWriter ==
    /\ job = "maldi" /\ pc = "next_file"
    /\ args.maldi_output_file = "individual"
    /\ todo # <<>>
    /\ LET coord == Head(todo).coord
           dict == args.plate_map_dict
       IN  IF coord \notin DOMAIN dict
           THEN /\ pc' = "raised" /\ err' = "KeyError"
                /\ UNCHANGED <<fs, writer, opened>>
           ELSE IF dict[coord] = "nan"
           THEN /\ pc' = "raised" /\ err' = "TypeError"
                /\ UNCHANGED <<fs, writer, opened>>
           ELSE /\ writer' = MzMLWriter(IndividualFile(dict[coord], coord))
                /\ opened' = Append(opened, IndividualFile(dict[coord], coord))
                /\ fs' = Create(fs, IndividualFile(dict[coord], coord))
                /\ pc' = "individual_write"
                /\ UNCHANGED err
    /\ UNCHANGED <<job, data, args, reconciled, chunk, j, ranges, scan_count,
                   num_of_spectra, cursor, todo>>

\* lines 693-718
IndividualWrite ==
    /\ job = "maldi" /\ pc = "individual_write"
    /\ MetadataWritable(data)
    /\ scan_count' = 1
    /\ fs' = AppendLines(fs, writer.path,
                WithSource(Preamble(args.mode), data) \o
                <<SpectrumListLine(1, DataProcessingRef(args.barebones_metadata))>>
                \o (IF PassedOver(Head(todo), args.ms2_only)
                    THEN <<>>
                    ELSE <<SpectrumLine([Head(todo) EXCEPT
                                            !.scan_number = 1,
                                            !.write_call =
                                                DispatchOnLevel(Head(todo))])>>))
    /\ pc' = "individual_close"
    /\ UNCHANGED <<job, data, args, reconciled, err, writer, chunk, j, ranges,
                   num_of_spectra, cursor, todo, opened>>

\* leaving the with-block of line 693, and lines 719-720
IndividualCloseWriter ==
    /\ job = "maldi" /\ pc = "individual_close"
    /\ fs' = AppendLines(fs, writer.path, <<ClosingLine>>)
    /\ writer' = [writer EXCEPT !.state = "closed"]
    /\ todo' = Tail(todo)
    /\ pc' = "next_file"
    /\ UNCHANGED <<job, data, args, reconciled, err, chunk, j, ranges, scan_count,
                   num_of_spectra, cursor, opened>>

\* lines 755-757: sorted(list(set(str(value) for every value)))
SortedLabels == <<"A", "B", "nan">>

\* as conditions, but every label there is, in the plate map or not
EveryLabel(dict) == SortedLabels

conditions(dict) ==
    SelectSeq(SortedLabels, LAMBDA l : \E c \in DOMAIN dict : dict[c] = l)

\* as dict_of_scan_lists, but the spots with a NaN label are filed under
\* every key
SpotsWithNan(dict, key) == {c \in DOMAIN dict : dict[c] \in {key, "nan"}}

\* lines 759-767: the spots filed under key; a NaN value is no key of the
\* dictionary (its keys are strings), so its spots are filed nowhere
dict_of_scan_lists(dict, key) ==
    IF key = "nan" THEN {} ELSE {c \in DOMAIN dict : dict[c] = key}

\* lines 723-767
SampleParse ==
    /\ job = "maldi" /\ pc = "start"
    /\ args.maldi_output_file = "sample"
    /\ PlateMapUsable(args.plate_map)
    /\ todo' = conditions(args.plate_map_dict)
    /\ pc' = "next_file"
    /\ UNCHANGED <<job, data, args, reconciled, err, fs, writer, chunk, j, ranges,
                   scan_count, num_of_spectra, cursor, opened>>

\* lines 769-770 for the key 'nan': no file
SampleSkipNan ==
    /\ job = "maldi" /\ pc = "next_file"
    /\ args.maldi_output_file = "sample"
    /\ todo # <<>> /\ Head(todo) = "nan"
    /\ todo' = Tail(todo)
    /\ UNCHANGED <<job, data, args, reconciled, pc, err, fs, writer, chunk, j, ranges,
                   scan_count, num_of_spectra, cursor, opened>>

\* lines 769-773
SampleOpenWriter ==
    /\ job = "maldi" /\ pc = "next_file"
    /\ args.maldi_output_file = "sample"
    /\ todo # <<>> /\ Head(todo) # "nan"
    /\ writer' = MzMLWriter(SampleFile(Head(todo)))
    /\ opened' = Append(opened, SampleFile(Head(todo)))
    /\ fs' = Create(fs, SampleFile(Head(todo)))
    /\ pc' = "sample_write"
    /\ UNCHANGED <<job, data, args, reconciled, err, chunk, j, ranges, scan_count,
                   num_of_spectra, cursor, todo>>

\* as condition_scan_dicts, but a record whose coord the plate map lacks is
\* selected as well
WithUnlistedCoords(d, value) ==
    SelectSeq(list_of_scan_dicts(d),
              LAMBDA i : i.coord \in value \/ i.coord \notin DOMAIN args.plate_map_dict)

\* as condition_scan_dicts, but without the test of the record's coord
EveryScanDict(d, value) == list_of_scan_dicts(d)

\* line 781
condition_scan_dicts(d, value) ==
    SelectSeq(list_of_scan_dicts(d), LAMBDA i : i.coord \in value)

\* lines 783-802: the records of the label that are not passed over, numbered
SampleWriteOrder(scans, ms2_only) ==
    LET kept == SelectSeq(scans, LAMBDA s : ~PassedOver(s, ms2_only))
    IN  [i \in 1..Len(kept) |->
            [kept[i] EXCEPT !.write_call = DispatchOnLevel(kept[i])]]

\* lines 775-802
SampleWrite ==
    /\ job = "maldi" /\ pc = "sample_write"
    /\ MetadataWritable(data)
    /\ LET value == dict_of_scan_lists(args.plate_map_dict, Head(todo))
           written == NumberAndWrite(
                          SampleWriteOrder(condition_scan_dicts(data, value),
                                           args.ms2_only), 0)
       IN  /\ fs' = AppendLines(fs, writer.path,
                        WithSource(Preamble(args.mode), data) \o
                        <<SpectrumListLine(Cardinality(value),
                                DataProcessingRef(args.barebones_metadata))>>
                        \o [i \in 1..Len(written) |-> SpectrumLine(written[i])])
           /\ scan_count' = Len(written)
    /\ pc' = "sample_close"
    /\ UNCHANGED <<job, data, args, reconciled, err, writer, chunk, j, ranges,
                   num_of_spectra, cursor, todo, opened>>

\* leaving the with-block of line 775, and lines 804-805
SampleCloseWriter ==
    /\ job = "maldi" /\ pc = "sample_close"
    /\ fs' = AppendLines(fs, writer.path, <<ClosingLine>>)
    /\ writer' = [writer EXCEPT !.state = "closed"]
    /\ todo' = Tail(todo)
    /\ pc' = "next_file"
    /\ UNCHANGED <<job, data, args, reconciled, err, chunk, j, ranges, scan_count,
                   num_of_spectra, cursor, opened>>

\* the for loop of line 687 / 769 has no element left: the function returns
FilesDone ==
    /\ job = "maldi" /\ pc = "next_file"
    /\ todo = <<>>
    /\ pc' = "done"
    /\ UNCHANGED <<job, data, args, reconciled, err, fs, writer, chunk, j, ranges,
                   scan_count, num_of_spectra, cursor, todo, opened>>

(***************************************************************************)
(* A write to the open stream fails (the writer's own exception).          *)
(***************************************************************************)
WriterRaises ==
    /\ writer.state = "open"
    /\ pc \in {"loop", "records", "individual_write", "sample_write"}
    /\ pc' = "raised"
    /\ err' = "IOError"
    /\ writer' = [writer EXCEPT !.state = "closed"]
    /\ \E flushed \in BOOLEAN : fs' = ClosedByException(fs, writer, flushed)
    /\ UNCHANGED <<job, data, args, reconciled, chunk, j, ranges, scan_count,
                   num_of_spectra, cursor, todo, opened>>

(***************************************************************************)
(* write_mzml_metadata raises on the instrument source (lines 93-104),     *)
(* after controlled_vocabularies and the file description are written.     *)
(***************************************************************************)
MetadataRaises ==
    /\ job \in {"lcms", "maldi"}
    /\ writer.state = "open"
    /\ pc \in {"opened", "individual_write", "sample_write"}
    /\ ~MetadataWritable(data)
    /\ pc' = "raised"
    /\ err' = InstrumentSource(data.GlobalMetadata).err
    /\ writer' = [writer EXCEPT !.state = "closed"]
    /\ \E flushed \in BOOLEAN :
            fs' = ClosedByException(
                    AppendLines(fs, writer.path,
                        <<ControlledVocabulariesLine, MetadataLine(args.mode)>>),
                    writer, flushed)
    /\ UNCHANGED <<job, data, args, reconciled, chunk, j, ranges, scan_count,
                   num_of_spectra, cursor, todo, opened>>

Init == InitLcms \/ InitIms \/ InitMaldi

Next ==
    \/ LcmsOpenWriter
    \/ LcmsBeginSpectrumList
    \/ LcmsWhileChunk
    \/ LcmsLastChunk
    \/ LcmsCloseWriter
    \/ LcmsUpdateCount
    \/ LcmsRename
    \/ UpdateOpen
    \/ UpdateCopyLine
    \/ UpdateRemoveTmp
    \/ UpdateRemoveRaises
    \/ UpdateRaises
    \/ ImsOpenWriter
    \/ ImsWhileChunk
    \/ ImsLastChunk
    \/ ImsCloseWriter
    \/ CombinedOpenWriter
    \/ CombinedBeginSpectrumList
    \/ CombinedWriteRecord
    \/ CombinedCloseWriter
    \/ NoPlateMapReturn
    \/ IndividualParse
    \/ IndividualOpenWriter
    \/ IndividualWrite
    \/ IndividualCloseWriter
    \/ SampleParse
    \/ SampleSkipNan
    \/ SampleOpenWriter
    \/ SampleWrite
    \/ SampleCloseWriter
    \/ FilesDone
    \/ WriterRaises

Spec == Init /\ [][Next]_vars

(***************************************************************************)
(* The chunked jobs alone: write_lcms_mzml and write_maldi_ims_imzml on    *)
(* acquisitions of frames 1..MaxChunkedId, with every chunk size.          *)
(***************************************************************************)
ChunkedInit ==
    /\ job \in {"lcms", "ims"}
    /\ \E kinds \in [1..MaxChunkedId -> RowKinds] :
            /\ job = "ims" => \A id \in 1..MaxChunkedId : kinds[id] # "ms2"
            /\ data = Analysis(FramesTable(kinds), "TDF")
    /\ \E cs \in ChunkSizes : args = LcmsArgs(cs, FALSE, FALSE)
    /\ fs = NoFiles
    /\ Locals

\* a failure of the file system under the job: a write or a removal raises
Fault == WriterRaises \/ UpdateRaises \/ UpdateRemoveRaises

\* a statement of a chunked job runs
Runs ==
    \/ LcmsOpenWriter
    \/ LcmsBeginSpectrumList
    \/ LcmsWhileChunk
    \/ LcmsLastChunk
    \/ LcmsCloseWriter
    \/ LcmsUpdateCount
    \/ LcmsRename
    \/ UpdateOpen
    \/ UpdateCopyLine
    \/ UpdateRemoveTmp
    \/ ImsOpenWriter
    \/ ImsWhileChunk
    \/ ImsLastChunk
    \/ ImsCloseWriter

ChunkedNext == Runs \/ Fault

ChunkedSpec == ChunkedInit /\ [][ChunkedNext]_vars

(***************************************************************************)
(* The declared count alone: write_lcms_mzml up to its spectrum list, on   *)
(* acquisitions of every data class with up to MaxCountRows rows in each   *)
(* table.  A cell of MonoisotopicMz is None, NaN or a number.              *)
(***************************************************************************)
MzCells == {NoneMz, NanMz, NumberMz(0), NumberMz(1)}

\* tables of up to MaxCountRows rows with the given column over the values
ColumnTables(column, values) ==
    UNION {{[i \in 1..n |-> [c \in {column} |-> cells[i]]] :
                cells \in [1..n -> values]} : n \in 0..MaxCountRows}

CountData ==
    LET frames == {FramesTable(kinds) : kinds \in [1..MaxCountRows -> RowKinds]}
    IN  {[Analysis(f, "TDF") EXCEPT !.Precursors = p] :
            f \in frames, p \in ColumnTables("MonoisotopicMz", MzCells)}
        \cup {[Frames |-> f, SchemaType |-> "TDF", GlobalMetadata |-> EsiMetadata] :
                f \in frames}
        \cup {Analysis(f, "TSF") : f \in frames}
        \cup {[SchemaType |-> "BAF", GlobalMetadata |-> EsiMetadata, Spectra |-> t] :
                t \in ColumnTables("AcquisitionKey", 0..2)}

CountInit ==
    /\ job = "lcms"
    /\ data \in CountData
    /\ \E m \in BOOLEAN : args = LcmsArgs(1, m, FALSE)
    /\ fs = NoFiles
    /\ Locals

CountNext == LcmsOpenWriter \/ LcmsBeginSpectrumList

CountSpec == CountInit /\ [][CountNext]_vars

(***************************************************************************)
(* The instrument source alone: write_lcms_mzml up to its spectrum list,   *)
(* on acquisitions whose GlobalMetadata have a known or unknown            *)
(* InstrumentSourceType or none, with and without MaldiApplicationType.    *)
(***************************************************************************)
SourceTypes == {"1", "2", "99"}

GlobalMetadatas ==
    {[InstrumentSourceType |-> t] : t \in SourceTypes}
    \cup {[InstrumentSourceType |-> t, MaldiApplicationType |-> "SingleSpectra"] :
            t \in SourceTypes}
    \cup {[MaldiApplicationType |-> "SingleSpectra"], [SchemaType |-> "TDF"]}

MetadataInit ==
    /\ job = "lcms"
    /\ \E kinds \in [1..MaxCountRows -> RowKinds], g \in GlobalMetadatas :
            data = [Analysis(FramesTable(kinds), "TDF") EXCEPT !.GlobalMetadata = g]
    /\ \E m \in BOOLEAN : args = LcmsArgs(1, m, FALSE)
    /\ fs = NoFiles
    /\ Locals

MetadataNext == LcmsOpenWriter \/ LcmsBeginSpectrumList \/ MetadataRaises

MetadataSpec == MetadataInit /\ [][MetadataNext]_vars

(***************************************************************************)
(* Properties.                                                             *)
(***************************************************************************)
\* the id list the chunk loop of the running job walks
PlannedFrames == IF job = "lcms" THEN Ms1Frames(data) ELSE FrameIds(data)

ChunkedJob == job \in {"lcms", "ims"}

\* the chunk loop has run to its end: normally, or by raising on its own
ChunkLoopLeft ==
    /\ ChunkedJob
    /\ pc \notin {"start", "opened", "loop"}
    /\ err \notin {"IOError"}

ChunkLoopCompleted == ChunkLoopLeft /\ err # "UnboundLocalError"

\* the mzML files that exist under a final output name
FinalNames == DOMAIN fs \ {TmpFile}

\* C1: in every mzML file of an LC-MS job and of a MALDI dried-droplet job,
\* at every moment, the i-th spectrum written carries scan_number i: the
\* numbers are 1..N in write order, without gap, duplicate or reordering.
ScanNumbersAreOneToN ==
    job \in {"lcms", "maldi"} =>
        \A name \in DOMAIN fs :
            \A i \in 1..Len(Spectra(fs[name])) : Spectra(fs[name])[i].num = i

\* an LC-MS file finished after two or more chunks, with an MS2 spectrum
\* written between two MS1 spectra
ScanNumbersWitnessLcms ==
    /\ job = "lcms" /\ pc = "done"
    /\ Len(ranges) > args.chunk_size
    /\ Len(Spectra(fs[FinalFile])) >= 3
    /\ Spectra(fs[FinalFile])[2].lvl = 2
    /\ Spectra(fs[FinalFile])[3].lvl = 1

\* C2 (as claimed): when a job has returned normally, every mzML file it left
\* under a final name declares in its spectrum-list header exactly the number
\* of spectra the file holds.
DeclaredCountIsWrittenCount ==
    (job \in {"lcms", "maldi"} /\ pc = "done") =>
        \A name \in FinalNames :
            fs[name] # OldFile =>
                /\ Len(Headers(fs[name])) = 1
                /\ Headers(fs[name])[1].num = Len(Spectra(fs[name]))

\* the temporary file with the count of its spectrum-list header set to count
WithHeaderCount(lines, count) ==
    [i \in 1..Len(lines) |->
        IF lines[i].k = "spectrumList" THEN [lines[i] EXCEPT !.num = count]
        ELSE lines[i]]

\* C3 (as claimed): the step that ends an LC-MS or MALDI combined job leaves
\* no temporary file, and the final file is the temporary file as it was,
\* with the header count D replaced by the true count T when they differ.
ReconciledFileIsPatchedTmp ==
    [][(pc # "done" /\ pc' = "done" /\ Exists(fs, TmpFile)) =>
            /\ ~Exists(fs', TmpFile)
            /\ Exists(fs', FinalFile)
            /\ fs'[FinalFile] = WithHeaderCount(fs[TmpFile], scan_count)]_vars

\* the half-open interval [r[1], r[2]) holds id
Holds(r, id) == r[1] <= id /\ id < r[2]

\* C4 (as claimed): once the chunk loop is left, the ranges handed on are
\* ascending and contiguous, and every id of the list lies in exactly one.
RangesCoverEveryIdOnce ==
    ChunkLoopLeft =>
        /\ \A i \in 1..Len(ranges) - 1 :
                ranges[i][1] < ranges[i + 1][1] /\ ranges[i][2] = ranges[i + 1][1]
        /\ \A k \in 1..Len(PlannedFrames) :
                Cardinality({i \in 1..Len(ranges) :
                                Holds(ranges[i], PlannedFrames[k])}) = 1

\* the position of id in the id list (0: not in it)
PositionOf(frames, id) ==
    IF \E k \in 1..Len(frames) : frames[k] = id
    THEN CHOOSE k \in 1..Len(frames) : frames[k] = id
    ELSE 0

SpecRangesOfTen == <<<<1, 4>>, <<4, 7>>, <<7, 10>>, <<10, 11>>>>

CodeRangesOfTen == [i \in 1..10 |-> <<i, i + 1>>]

TenFramesInThrees ==
    job = "lcms" /\ data = TenMs1Frames /\ args.chunk_size = 3 /\ ChunkLoopCompleted

LastStopIsPastLastId ==
    ChunkLoopCompleted => Last(ranges)[2] = Last(FrameIds(data)) + 1

\* C7 (as claimed): an id list of size 0 or 1 makes the chunk loop hand on no
\* range or one range, and the loop does not raise.
ShortListDoesNotRaise ==
    (ChunkedJob /\ Len(PlannedFrames) <= 1) =>
        /\ err # "UnboundLocalError"
        /\ Len(ranges) <= 1

\* C8 (as claimed): for an acquisition without frames no writer is opened and
\* no temporary or final file is created.
NoFramesNoWriter ==
    (ChunkedJob /\ RowCount(data) = 0) =>
        /\ opened = <<>>
        /\ ~Exists(fs, TmpFile)
        /\ (Exists(fs, FinalFile) => fs[FinalFile] = OldFile)

\* C9 (as claimed): individual and sample jobs whose plate map is '', does
\* not exist or is no .csv never return normally.
NoPlateMapIsFatal ==
    (/\ job = "maldi"
     /\ args.maldi_output_file \in {"individual", "sample"}
     /\ ~PlateMapUsable(args.plate_map)) => pc # "done"

\* a file that ends with the closing tags
Complete(lines) == lines # <<>> /\ Last(lines) = ClosingLine

\* C10 (as claimed): in every state of an LC-MS or MALDI dried-droplet job,
\* every file under a final output name is complete.
NoPartialFinalFile ==
    job \in {"lcms", "maldi"} => \A name \in FinalNames : Complete(fs[name])

\* the jobs that write to a temporary file and rename or patch it at the end
WritesThroughTmp ==
    job = "lcms" \/ (job = "maldi" /\ args.maldi_output_file = "combined")

\* nothing was put under name by the job
Untouched(name) == Exists(fs, name) => fs[name] = OldFile

Rewrites == pc \in {"update", "copy"} \/ cursor > 0

\* the writer stream was left normally with the true count equal to the
\* declared count
LeftWithEqualCounts ==
    /\ writer.state = "closed"
    /\ err \notin {"IOError", "UnboundLocalError"}
    /\ num_of_spectra = scan_count

\* C12 (as claimed): in an LC-MS job and in a MALDI combined job whose true
\* count equals the declared count, the temporary file is only renamed: it is
\* never read and rewritten line by line.
EqualCountsOnlyRename ==
    (WritesThroughTmp /\ LeftWithEqualCounts) => ~Rewrites

\* a MALDI combined job with equal counts has copied its file line by line
CombinedRewritesOnEqualCounts ==
    /\ job = "maldi" /\ WritesThroughTmp /\ pc = "done"
    /\ scan_count > 0 /\ num_of_spectra = scan_count
    /\ cursor = Len(fs[FinalFile]) + 1

\* some line of the file is a spectrum-list header that declares count
DeclaresCount(lines, count) ==
    \E i \in 1..Len(lines) :
        lines[i].k = "spectrumList" /\ lines[i].num = count

\* C13 (as claimed): update_spectra_count, called with a declared count that
\* differs from the true count, never returns normally with a final file
\* that still declares the uncorrected count: when no line of the temporary
\* file is the expected header it ends in an error.
UnmatchedPatchIsFatal ==
    (WritesThroughTmp /\ pc = "done" /\ cursor > 0
        /\ num_of_spectra # scan_count) =>
        ~DeclaresCount(fs[FinalFile], num_of_spectra)

\* the two lines differ in nothing but the count they carry
SameButCount(a, b) == a = [b EXCEPT !.num = a.num]

\* C14: while update_spectra_count copies, the final file holds one line for
\* every line of the temporary file read so far, in the same order; a line
\* that is not the spectrum-list header of the declared count is copied
\* unchanged, and the header of the declared count differs from its copy only
\* in the count, which is the true count.
PatchChangesOnlyTheCount ==
    pc = "copy" =>
        /\ Len(fs[FinalFile]) = cursor - 1
        /\ cursor <= Len(fs[TmpFile]) + 1
        /\ \A i \in 1..(cursor - 1) :
                LET old == fs[TmpFile][i]
                    new == fs[FinalFile][i]
                IN  IF old.k = "spectrumList" /\ old.num = num_of_spectra
                        /\ old.ref = "exportation"
                    THEN SameButCount(new, old) /\ new.num = scan_count
                    ELSE new = old

\* every line of a temporary file with spectra is copied, one of them patched
PatchWitness ==
    /\ pc = "copy" /\ cursor = Len(fs[TmpFile]) + 1
    /\ num_of_spectra # scan_count
    /\ scan_count >= 2
    /\ fs[FinalFile] # fs[TmpFile]

\* a sample job with a plate map it can read
SampleJob ==
    /\ job = "maldi" /\ args.maldi_output_file = "sample"
    /\ PlateMapUsable(args.plate_map)

\* the in-scope records: the assembled records that pass the ms2_only filter
InScope ==
    SelectSeq(list_of_scan_dicts(data), LAMBDA s : ~PassedOver(s, args.ms2_only))

\* the record's coord has a label in the plate map, and the label is not NaN
Mapped(s) ==
    /\ s.coord \in DOMAIN args.plate_map_dict
    /\ args.plate_map_dict[s.coord] # "nan"

\* the positions of the file at which the spectrum of frame is written
WrittenAt(name, frame) ==
    {i \in 1..Len(fs[name]) :
        fs[name][i].k = "spectrum" /\ fs[name][i].frame = frame}

\* the files that hold a spectrum of frame
FilesHolding(frame) == {name \in DOMAIN fs : WrittenAt(name, frame) # {}}

\* C15: in sample topology every spectrum in a file is the one spectrum of
\* an in-scope record whose coord is mapped, in the file of its label; once
\* the job has returned, each in-scope record with a mapped coord is in
\* exactly the file of its label and each unmapped one is in no file.
SampleRecordInOneFile ==
    SampleJob =>
        /\ \A name \in DOMAIN fs : \A i \in 1..Len(fs[name]) :
                fs[name][i].k = "spectrum" =>
                    /\ Cardinality(WrittenAt(name, fs[name][i].frame)) = 1
                    /\ \E k \in 1..Len(InScope) :
                            /\ InScope[k].frame = fs[name][i].frame
                            /\ Mapped(InScope[k])
                            /\ name = SampleFile(args.plate_map_dict[InScope[k].coord])
        /\ pc = "done" =>
                \A k \in 1..Len(InScope) :
                    FilesHolding(InScope[k].frame) =
                        IF Mapped(InScope[k])
                        THEN {SampleFile(args.plate_map_dict[InScope[k].coord])}
                        ELSE {}

\* a sample job has returned with two label files that hold spectra and an
\* in-scope record left out as unmapped
SampleOneFileWitness ==
    /\ SampleJob /\ pc = "done"
    /\ Cardinality(DOMAIN fs) = 2
    /\ \A name \in DOMAIN fs : Spectra(fs[name]) # <<>>
    /\ \E k \in 1..Len(InScope) : ~Mapped(InScope[k])

\* the four-spot example: spots 1,1 / 1,2 / 2,1 / 2,2 labelled A, A, B, NaN,
\* every record in scope
FourSpotSample ==
    /\ SampleJob /\ ~args.ms2_only
    /\ data = FourSpots /\ args.plate_map_dict = FourSpotPlateMap

\* C16: in sample topology no file holds the spectrum of a spot whose label
\* is NaN, no file is created for the NaN label, and the job raises no error
\* of its own; the four-spot example returns with exactly the file of A with
\* 2 spectra and the file of B with 1 spectrum.
NanLabelIsLeftOut ==
    SampleJob =>
        /\ ~Exists(fs, SampleFile("nan"))
        /\ \A name \in DOMAIN fs : \A i \in 1..Len(fs[name]) :
                fs[name][i].k = "spectrum" =>
                    /\ CoordOf(fs[name][i].frame) \in DOMAIN args.plate_map_dict
                    /\ args.plate_map_dict[CoordOf(fs[name][i].frame)] # "nan"
        /\ err \in {"", "IOError"}
        /\ (FourSpotSample /\ pc = "done") =>
                /\ DOMAIN fs = {SampleFile("A"), SampleFile("B")}
                /\ Len(Spectra(fs[SampleFile("A")])) = 2
                /\ Len(Spectra(fs[SampleFile("B")])) = 1

\* the four-spot example has returned without error, its two files written
NanLabelWitness ==
    /\ FourSpotSample /\ pc = "done" /\ err = ""
    /\ Len(list_of_scan_dicts(data)) = 4
    /\ Cardinality(DOMAIN fs) = 2

\* an in-scope record of the run has a coord the plate map lacks
SomeCoordAbsent ==
    \E k \in 1..Len(InScope) : InScope[k].coord \notin DOMAIN args.plate_map_dict

\* C17: in a sample job with a record whose coord is absent from the plate
\* map, no KeyError or other error of the job's own is raised, no file holds
\* a spectrum of a spot the plate map lacks, and once the job has returned
\* every other in-scope record whose coord has a label is in its label file.
AbsentCoordIsLeftOut ==
    (SampleJob /\ SomeCoordAbsent) =>
        /\ err \in {"", "IOError"}
        /\ pc # "raised" \/ err = "IOError"
        /\ \A name \in DOMAIN fs :
                \A i \in 1..Len(Spectra(fs[name])) :
                    CoordOf(Spectra(fs[name])[i].frame) \in DOMAIN args.plate_map_dict
        /\ pc = "done" =>
                \A k \in 1..Len(InScope) :
                    Mapped(InScope[k]) =>
                        SampleFile(args.plate_map_dict[InScope[k].coord])
                            \in FilesHolding(InScope[k].frame)

\* a sample job has returned without error: one record was left out for its
\* absent coord, another is written to its label file
AbsentCoordWitness ==
    /\ SampleJob /\ SomeCoordAbsent /\ pc = "done" /\ err = ""
    /\ \E k \in 1..Len(InScope) :
            Mapped(InScope[k]) /\ FilesHolding(InScope[k].frame) # {}

\* an individual job with a plate map it can read
IndividualJob ==
    /\ job = "maldi" /\ args.maldi_output_file = "individual"
    /\ PlateMapUsable(args.plate_map)

\* C18 (as claimed): in individual topology a file is opened only for an
\* in-scope record, every file closed normally holds exactly one spectrum,
\* and a job that has returned has opened one file for every in-scope record.
OneSpectrumPerIndividualFile ==
    IndividualJob =>
        /\ \A i \in 1..Len(opened) :
                \E k \in 1..Len(InScope) :
                    /\ Mapped(InScope[k])
                    /\ opened[i] = IndividualFile(
                            args.plate_map_dict[InScope[k].coord], InScope[k].coord)
        /\ err = "" =>
                \A name \in DOMAIN fs :
                    Complete(fs[name]) => Len(Spectra(fs[name])) = 1
        /\ pc = "done" =>
                \A k \in 1..Len(InScope) :
                    \E i \in 1..Len(opened) :
                        opened[i] = IndividualFile(
                            args.plate_map_dict[InScope[k].coord], InScope[k].coord)

\* a MALDI combined job
CombinedJob == job = "maldi" /\ args.maldi_output_file = "combined"

\* the (frame, ms level) pairs of a sequence of records, in order
FramesOfScans(scans) ==
    [i \in 1..Len(scans) |-> <<scans[i].frame, scans[i].ms_level>>]

\* the (frame, ms level) pairs of the spectra of a file, in order
FramesOfSpectra(lines) ==
    [i \in 1..Len(Spectra(lines)) |->
        <<Spectra(lines)[i].frame, Spectra(lines)[i].lvl>>]

\* the records of scans that the filter lets through: all of them, or with
\* ms2_only those of ms level 2
ThroughFilter(scans) ==
    SelectSeq(scans, LAMBDA s : ~args.ms2_only \/ s.ms_level = 2)

\* C19: a MALDI combined job opens one writer stream, on the temporary file;
\* while it writes, the spectra written so far followed by the filtered
\* records still to come are the filtered assembled records in assembly
\* order; once the stream is left normally the spectra of the file are
\* exactly those records in that order.
CombinedWritesFilteredInOrder ==
    CombinedJob =>
        /\ opened = IF pc = "start" THEN <<>> ELSE <<TmpFile>>
        /\ pc = "records" =>
                FramesOfSpectra(fs[TmpFile]) \o FramesOfScans(ThroughFilter(todo))
                    = FramesOfScans(ThroughFilter(list_of_scan_dicts(data)))
        /\ (pc \in {"update", "copy"} /\ Exists(fs, TmpFile)) =>
                FramesOfSpectra(fs[TmpFile])
                    = FramesOfScans(ThroughFilter(list_of_scan_dicts(data)))
        /\ pc = "done" =>
                FramesOfSpectra(fs[FinalFile])
                    = FramesOfScans(ThroughFilter(list_of_scan_dicts(data)))

\* a combined job with ms2_only has returned: an MS1 record between two MS2
\* records was passed over, the two MS2 records are written
CombinedFilterWitness ==
    /\ CombinedJob /\ args.ms2_only /\ pc = "done"
    /\ FramesOfScans(list_of_scan_dicts(data)) = <<<<1, 2>>, <<2, 1>>, <<3, 2>>>>
    /\ FramesOfSpectra(fs[FinalFile]) = <<<<1, 2>>, <<3, 2>>>>

\* the MS1 frame the table names as the parent of frame (0: none)
ParentFrameOf(frame) ==
    LET rows == SelectSeq(data.Frames, LAMBDA r : r.Id = frame)
    IN  IF rows = <<>> THEN 0 ELSE rows[1].Parent

\* line h of the file is the spectrum of the parent of the MS2 spectrum l
IsParentLine(lines, h, l) ==
    /\ lines[h].k = "spectrum" /\ lines[h].lvl = 1
    /\ lines[h].frame = ParentFrameOf(l.frame)

\* C20: in every file of an LC-MS job, an MS2 spectrum that carries a
\* precursor reference names the scan number of the spectrum of its parent
\* frame, which is an earlier line of the same file with a smaller scan
\* number; an MS2 spectrum whose parent is written in the file carries the
\* reference; with ms2_only no MS2 spectrum carries one.
PrecursorReferencesParent ==
    job = "lcms" =>
        \A name \in DOMAIN fs : \A i \in 1..Len(fs[name]) :
            LET l == fs[name][i]
            IN  (l.k = "spectrum" /\ l.lvl = 2) =>
                    /\ args.ms2_only => l.pref = NoReference
                    /\ l.pref # NoReference =>
                            \E h \in 1..(i - 1) :
                                /\ IsParentLine(fs[name], h, l)
                                /\ fs[name][h].num = l.pref
                                /\ l.pref < l.num
                    /\ (\E h \in 1..Len(fs[name]) : IsParentLine(fs[name], h, l)) =>
                            l.pref # NoReference

\* an LC-MS job has returned with a file whose fourth spectrum is an MS2
\* spectrum that refers to the second spectrum, its parent
PrecursorReferenceWitness ==
    /\ job = "lcms" /\ pc = "done" /\ ~args.ms2_only
    /\ Len(Spectra(fs[FinalFile])) = 4
    /\ Spectra(fs[FinalFile])[2].lvl = 1
    /\ Spectra(fs[FinalFile])[4].lvl = 2
    /\ Spectra(fs[FinalFile])[4].pref = 2

\* the non-empty MS2 rows of the ranges handed on whose parent frame has no
\* record among the parent records of their range
OrphanProducts ==
    {r \in {data.Frames[n] : n \in 1..Len(data.Frames)} :
        /\ r.MsMsType # 0 /\ r.nonempty
        /\ \E i \in 1..Len(ranges) :
                /\ Holds(ranges[i], r.Id)
                /\ \A k \in 1..Len(ParentScans(data, ranges[i][1], ranges[i][2])) :
                        ParentScans(data, ranges[i][1], ranges[i][2])[k].frame
                            # r.Parent}

\* C21 (as claimed): in an LC-MS job without ms2_only, a product record whose
\* parent_frame matches no parent record of its chunk is reported as a
\* defect: it is never left out of the output with no error raised.
MissingParentIsReported ==
    (job = "lcms" /\ ~args.ms2_only /\ err = "") =>
        \A r \in OrphanProducts : FilesHolding(r.Id) # {}

\* the row of the Frames table the spectrum line was read from
RowOfLine(l) ==
    LET rows == SelectSeq(data.Frames, LAMBDA r : r.Id = l.frame)
    IN  rows[1]

\* the spectrum lines of the mzML files of the job
SpectrumLines ==
    {l \in UNION {{fs[name][i] : i \in 1..Len(fs[name])} : name \in DOMAIN fs} :
        l.k = "spectrum"}

\* C22 (as claimed): in LC-MS and MALDI dried-droplet jobs, the spectrum of
\* every written record with ms2_no_precursor is MS1-shaped: written by
\* write_ms1_spectrum, with a collision energy parameter and no precursor
\* block.
NoPrecursorWrittenAsMs1 ==
    job \in {"lcms", "maldi"} =>
        \A l \in SpectrumLines :
            RowOfLine(l).no_precursor =>
                l.shape = "ms1" /\ l.ce /\ l.block = "none"

\* C23 (as claimed): every spectrum written at ms level 2 has a complete
\* precursor block, or is the spectrum of a record with ms2_no_precursor and
\* has no precursor block at all; none has a partial block.
PrecursorBlockCompleteOrAbsent ==
    job \in {"lcms", "maldi"} =>
        \A l \in SpectrumLines :
            l.lvl = 2 =>
                \/ l.block = "complete" /\ ~RowOfLine(l).no_precursor
                \/ l.block = "none" /\ RowOfLine(l).no_precursor

\* C24: the precursor block write_ms2_spectrum writes has no charge field
\* when the record's charge_state is None, NaN or 0, and has a charge field
\* with exactly the record's charge when that is a positive integer.
ChargeOmittedOrExact ==
    job \in {"lcms", "maldi"} =>
        \A l \in SpectrumLines :
            l.shape = "ms2" =>
                LET c == RowOfLine(l).charge_state
                IN  /\ c \in {NoneCharge, NanCharge, NumberCharge(0)} =>
                            l.charge = <<>>
                    /\ (c.t = "number" /\ c.v > 0) => l.charge = <<c.v>>

\* a MALDI combined job has returned with a spectrum whose precursor block
\* has the charge 2 and one, of a record with charge_state 0, without charge
ChargeWitness ==
    /\ job = "maldi" /\ pc = "done" /\ Exists(fs, FinalFile)
    /\ \E l1, l2 \in SpectrumLines :
            /\ l1.shape = "ms2" /\ l1.charge = <<2>>
            /\ l2.shape = "ms2" /\ l2.charge = <<>>
            /\ RowOfLine(l2).charge_state = NumberCharge(0)

\* the stop of a range that starts at the MS1 frame id start: the next MS1
\* frame id, or one past the last frame id when start is the last MS1 id
StopAfter(start) ==
    LET k == PositionOf(Ms1Frames(data), start)
    IN  IF k < Len(Ms1Frames(data)) THEN Ms1Frames(data)[k + 1]
        ELSE Last(FrameIds(data)) + 1

\* C25 (as claimed): every range handed to write_lcms_chunk_to_mzml starts at
\* an MS1 frame id and stops at the next MS1 frame id, or at the end of the
\* acquisition, and the parent frame of every MS2 frame of the range lies in
\* the range.
RangesAlignWithMs1 ==
    job = "lcms" =>
        \A i \in 1..Len(ranges) :
            /\ PositionOf(Ms1Frames(data), ranges[i][1]) # 0
            /\ ranges[i][2] = StopAfter(ranges[i][1])
            /\ \A n \in 1..Len(data.Frames) :
                    (Holds(ranges[i], data.Frames[n].Id)
                        /\ data.Frames[n].MsMsType = 8) =>
                        Holds(ranges[i], data.Frames[n].Parent)

\* C26 (as claimed): once update_spectra_count has copied every line to the
\* final file, the job completes whether or not the temporary file can be
\* removed, and the final file stays as it is.
RemoveFailureIsNotFatal ==
    [][(pc = "copy" /\ cursor > Len(fs[TmpFile])) =>
            /\ pc' = "done"
            /\ Exists(fs', FinalFile)
            /\ fs'[FinalFile] = fs[FinalFile]]_vars

\* the kind of line the writer calls put at a position of an mzML file
KindAt(i) ==
    IF i = 1 THEN "cvList"
    ELSE IF i = 2 THEN "fileDescription"
    ELSE IF i = 3 THEN "run"
    ELSE IF i = 4 THEN "spectrumList"
    ELSE "spectrum"

\* the lines are those of the calls controlled_vocabularies, metadata, run,
\* spectrum_list and spectra, in this order, with nothing after the close;
\* an exception that leaves the with-block closes the writer where it stands
InWriterOrder(lines) ==
    \A i \in 1..Len(lines) :
        \/ lines[i].k = KindAt(i)
        \/ i = Len(lines) /\ lines[i] = ClosingLine /\ (i > 4 \/ pc = "raised")

\* the mzML files the job has written to
WrittenMzml ==
    {name \in DOMAIN fs : job # "ims" /\ fs[name] # OldFile}

\* C27: every mzML file of every topology holds, in this order, the
\* controlled vocabularies, the file-level metadata once, the opened run, the
\* spectrum list with its declared count, zero or more spectra and the close;
\* no spectrum comes before the metadata or outside the spectrum list, and a
\* file of a completed job is closed.
WriterCallsInOrder ==
    \A name \in WrittenMzml :
        /\ InWriterOrder(fs[name])
        /\ Len(SelectSeq(fs[name], LAMBDA l : l.k = "fileDescription")) <= 1
        /\ pc = "done" => Complete(fs[name])

\* a sample job has completed with two files, one of them holding two spectra
WriterCallsWitness ==
    /\ job = "maldi" /\ pc = "done"
    /\ Cardinality(WrittenMzml) = 2
    /\ \E name \in WrittenMzml : Len(Spectra(fs[name])) = 2

\* the spectra added to the imzML file of an imaging job
AddedSpectra ==
    IF job = "ims" /\ Exists(fs, FinalFile) THEN Spectra(fs[FinalFile]) ELSE <<>>

\* C28: in an imaging job on TDF data in profile mode no spectrum is added
\* with a mobility array, whatever exclude_mobility is; and in every imaging
\* job every spectrum is added with a mobility array exactly if the writer
\* was constructed with include_mobility = True.
MobilityAsConfigured ==
    job = "ims" =>
        \A i \in 1..Len(AddedSpectra) :
            /\ (data.SchemaType = "TDF" /\ args.mode = "profile") =>
                    ~AddedSpectra[i].mobilities
            /\ AddedSpectra[i].mobilities = writer.config[1].include_mobility

\* an imaging job on TDF data in profile mode, called with exclude_mobility
\* False, has completed with two spectra added
ProfileMobilityWitness ==
    /\ job = "ims" /\ pc = "done"
    /\ data.SchemaType = "TDF" /\ args.mode = "profile"
    /\ ~args.exclude_mobility
    /\ Len(AddedSpectra) = 2

\* the file description lines of the mzML files of the job
FileDescriptions ==
    UNION {{fs[name][i] : i \in {n \in 1..Len(fs[name]) :
                                    fs[name][n].k = "fileDescription"}} :
            name \in WrittenMzml}

\* C29: the file description of every mzML file says 'centroid spectrum' for
\* the modes raw and centroid and 'profile spectrum' for the mode profile,
\* and the spectrum type flag an ImzMLWriter is constructed with is True for
\* raw and centroid and False for profile.
OnlyProfileIsNotCentroided ==
    /\ \A l \in FileDescriptions :
            /\ args.mode \in {"raw", "centroid"} => l.contents = "centroid spectrum"
            /\ args.mode = "profile" => l.contents = "profile spectrum"
    /\ (job = "ims" /\ writer.state # "none") =>
            /\ args.mode \in {"raw", "centroid"} => writer.config[1].spec_type
            /\ args.mode = "profile" => ~writer.config[1].spec_type

\* a file description has been written in raw mode
RawModeWitness ==
    /\ args.mode = "raw"
    /\ FileDescriptions # {}
    /\ pc = "done"

\* an ImzMLWriter has been constructed in raw mode
RawModeImagingWitness ==
    job = "ims" /\ args.mode = "raw" /\ writer.state = "open"

\* the places of a chunked job, in the order the function passes them
Stages ==
    <<"start", "opened", "loop", "with_exit", "reconcile", "update", "copy",
      "done", "raised">>

Stage(place) == PositionOf(Stages, place)

\* a step of a chunked job moves on to a later place, or is an iteration of
\* the while loop that moves the chunk cursor up within the frame list, or a
\* copied line that moves the line cursor up within the temporary file
Advances ==
    \/ Stage(pc') > Stage(pc)
    \/ /\ pc = "loop" /\ pc' = "loop"
       /\ chunk' > chunk
       /\ chunk' < Len(PlannedFrames)
    \/ /\ pc = "copy" /\ pc' = "copy"
       /\ cursor' > cursor
       /\ cursor' <= Len(fs[TmpFile]) + 1

\* C30: a job on a finite frame list with chunk_size >= 1 terminates.  Every
\* iteration of the while loop leaves the chunk cursor greater than it was
\* and below the length of the frame list, and every other step moves on to
\* a later place or copies one more line, so no run goes on forever; as long
\* as the job has neither completed nor raised, a statement is left to run
\* whether or not the file system fails; and a job that has stopped has
\* completed with the final file in place, or has raised an exception.
ChunkedJobTerminates ==
    /\ [][ChunkedJob => Advances]_vars
    /\ [](ChunkedJob =>
            /\ Stage(pc) # 0
            /\ pc \notin {"done", "raised"} => ENABLED Runs
            /\ pc = "done" => Exists(fs, FinalFile) /\ err = ""
            /\ pc = "raised" <=> err # "")

\* an LC-MS job has completed after two iterations of the while loop
TerminatesWitness ==
    /\ job = "lcms" /\ pc = "done"
    /\ args.chunk_size >= 1
    /\ chunk = 2 * args.chunk_size
    /\ Exists(fs, FinalFile)

\* the distinct labels of the plate map that are not NaN
LabelsOfPlateMap ==
    {args.plate_map_dict[c] : c \in DOMAIN args.plate_map_dict} \ {"nan"}

\* the assembled records whose coord carries the label
RecordsOfLabel(label) ==
    SelectSeq(list_of_scan_dicts(data),
              LAMBDA s : /\ s.coord \in DOMAIN args.plate_map_dict
                         /\ args.plate_map_dict[s.coord] = label)

\* C31: in sample topology no file is opened twice, every file opened is the
\* file of a label of the plate map that is not NaN, and once the job has
\* returned the files are exactly those of the distinct non-NaN labels, each
\* holding exactly the records of its label that pass the ms2_only filter.
SampleFilesAreTheLabels ==
    SampleJob =>
        /\ \A i, k \in 1..Len(opened) : opened[i] = opened[k] => i = k
        /\ \A i \in 1..Len(opened) :
                \E label \in LabelsOfPlateMap : opened[i] = SampleFile(label)
        /\ DOMAIN fs = {opened[i] : i \in 1..Len(opened)}
        /\ pc = "done" =>
                /\ DOMAIN fs = {SampleFile(label) : label \in LabelsOfPlateMap}
                /\ \A label \in LabelsOfPlateMap :
                        FramesOfSpectra(fs[SampleFile(label)]) =
                            FramesOfScans(ThroughFilter(RecordsOfLabel(label)))

\* a sample job with ms2_only has returned with the files of two labels; a
\* record of ms level 1 with a label was filtered out and a file holds a
\* spectrum
SampleFilesWitness ==
    /\ SampleJob /\ pc = "done" /\ args.ms2_only
    /\ Cardinality(LabelsOfPlateMap) = 2
    /\ \E label \in LabelsOfPlateMap :
            Len(ThroughFilter(RecordsOfLabel(label))) < Len(RecordsOfLabel(label))
    /\ \E name \in DOMAIN fs : Spectra(fs[name]) # <<>>

\* the number of product records the parser returned for the ranges handed
\* to write_lcms_chunk_to_mzml so far
ProductsHanded ==
    Cardinality({<<i, n>> \in (1..Len(ranges)) \X (1..Len(data.Frames)) :
                    /\ InRange(data.Frames[n], ranges[i][1], ranges[i][2])
                    /\ data.Frames[n].MsMsType # 0
                    /\ data.Frames[n].nonempty})

\* C32: with ms2_only no mzML file of an LC-MS or MALDI job holds a spectrum
\* of ms level 1, and in an LC-MS job the scan count is the number of product
\* records handed over so far: the parent records take no scan number.
NoMs1UnderMs2Only ==
    (job \in {"lcms", "maldi"} /\ args.ms2_only) =>
        /\ \A name \in DOMAIN fs : \A i \in 1..Len(fs[name]) :
                fs[name][i].k = "spectrum" => fs[name][i].lvl = 2
        /\ job = "lcms" => scan_count = ProductsHanded

\* an LC-MS job with ms2_only has completed; the parser returned a parent
\* record and two product records, and the final file holds two spectra
Ms2OnlyWitness ==
    /\ job = "lcms" /\ args.ms2_only /\ pc = "done"
    /\ \E n \in 1..Len(data.Frames) :
            data.Frames[n].MsMsType = 0 /\ data.Frames[n].nonempty
    /\ ProductsHanded = 2
    /\ Len(Spectra(fs[FinalFile])) = 2

\* a cell of MonoisotopicMz that holds an m/z: not None, not NaN, not 0
NonEmptyMz(x) == x.t = "number" /\ x.v # 0

\* the count C33 describes, from the row counts of the tables
RowCounts(d) ==
    IF d.SchemaType = "TDF"
    THEN Len(SelectSeq(d.Frames, LAMBDA r : r.MsMsType = 0))
         + (IF "Precursors" \in DOMAIN d
            THEN Len(SelectSeq(d.Precursors,
                               LAMBDA r : NonEmptyMz(r.MonoisotopicMz)))
            ELSE 0)
    ELSE IF d.SchemaType = "TSF"
    THEN Len(d.Frames)
    ELSE Len(SelectSeq(d.Spectra, LAMBDA r : r.AcquisitionKey \in {1, 2}))

\* C33: once write_lcms_mzml has opened its spectrum list, no spectrum has
\* been written, and the declared count, in the variable and in the header,
\* is the count of MS1 frames plus non-empty MonoisotopicMz cells (TDF), of
\* frame rows (TSF), or of spectra rows with key 1 or 2 (BAF), whatever
\* ms2_only is and whichever frames are empty.
DeclaredCountIsOfRowCounts ==
    (job = "lcms" /\ pc = "loop" /\ chunk = 0 /\ scan_count = 0) =>
        /\ num_of_spectra = RowCounts(data)
        /\ Spectra(fs[TmpFile]) = <<>>
        /\ Len(Headers(fs[TmpFile])) = 1
        /\ Headers(fs[TmpFile])[1].num = RowCounts(data)

\* the part of C33 that holds: the declared count is what get_spectra_count
\* returns for the tables, written before any spectrum, the same for both
\* values of ms2_only
DeclaredCountIsGetSpectraCount ==
    (job = "lcms" /\ pc = "loop" /\ chunk = 0 /\ scan_count = 0) =>
        /\ num_of_spectra = get_spectra_count(data)
        /\ Spectra(fs[TmpFile]) = <<>>
        /\ Headers(fs[TmpFile])[1].num = get_spectra_count(data)

\* a TDF acquisition with an MS1 frame and two precursor rows, one of them a
\* NaN MonoisotopicMz: the spectrum list is declared with 3 spectra
NanPrecursorCounted ==
    /\ job = "lcms" /\ pc = "loop"
    /\ data.SchemaType = "TDF" /\ "Precursors" \in DOMAIN data
    /\ Len(SelectSeq(data.Frames, LAMBDA r : r.MsMsType = 0)) = 1
    /\ data.Precursors = <<[MonoisotopicMz |-> NumberMz(1)],
                           [MonoisotopicMz |-> NanMz]>>
    /\ num_of_spectra = 3

\* the jobs that count their spectra for the reconciliation
CountedJob == job = "lcms" \/ CombinedJob

\* C34: in LC-MS and MALDI combined jobs scan_count is the number of spectra
\* in the output stream at every step, from the opening of the stream to the
\* end of the reconciliation, where it is the number of spectra of the file;
\* no step makes it smaller.
ScanCountIsSpectraEmitted ==
    /\ [](CountedJob =>
            /\ Exists(fs, TmpFile) => scan_count = Len(Spectra(fs[TmpFile]))
            /\ pc = "start" => scan_count = 0
            /\ (pc = "done" /\ err = "") =>
                    scan_count = Len(Spectra(fs[FinalFile])))
    /\ [][CountedJob => scan_count' >= scan_count]_vars

\* an LC-MS job has written three spectra over two ranges or more, declared
\* another count, and completed with the count reconciled to three
CountedOverRangesWitness ==
    /\ job = "lcms" /\ pc = "done" /\ err = ""
    /\ Len(ranges) >= 2
    /\ scan_count = 3 /\ num_of_spectra # scan_count
    /\ Len(Spectra(fs[FinalFile])) = 3

\* the number of parent records the parser returned for the ranges handed
\* to write_lcms_chunk_to_mzml so far
ParentsHanded ==
    Cardinality({<<i, n>> \in (1..Len(ranges)) \X (1..Len(data.Frames)) :
                    /\ InRange(data.Frames[n], ranges[i][1], ranges[i][2])
                    /\ data.Frames[n].MsMsType = 0
                    /\ data.Frames[n].nonempty})

\* C35: in an LC-MS job without ms2_only the spectra written for the ranges
\* handed over so far are as many as the parent records plus the product
\* records the parser returned for them.
EveryRecordWrittenOnce ==
    (job = "lcms" /\ ~args.ms2_only /\ Exists(fs, TmpFile)) =>
        Len(Spectra(fs[TmpFile])) = ParentsHanded + ProductsHanded

\* a range with no parent record and one product record has been handed
\* over, and nothing was written for it
ProductWithoutParentsLeftOut ==
    /\ job = "lcms" /\ ~args.ms2_only /\ pc = "done"
    /\ ParentsHanded = 0 /\ ProductsHanded = 1
    /\ Spectra(fs[FinalFile]) = <<>>

\* the frame ids of the acquisition are 1 through the frame row count
IdsAreRowNumbers == \A k \in 1..Len(data.Frames) : data.Frames[k].Id = k

\* C36: when an LC-MS job on frames 1 through the row count has completed,
\* every frame lies in exactly one of the ranges handed to
\* write_lcms_chunk_to_mzml.
EveryFrameInOneRange ==
    (job = "lcms" /\ pc = "done" /\ IdsAreRowNumbers) =>
        \A id \in 1..RowCount(data) :
            Cardinality({i \in 1..Len(ranges) : Holds(ranges[i], id)}) = 1

\* an LC-MS job has completed on frames 1 through the row count whose first
\* frame is a fragmentation: frame 1 lies in no range and was not written
FrameBeforeFirstMs1LeftOut ==
    /\ job = "lcms" /\ ~args.ms2_only /\ pc = "done" /\ IdsAreRowNumbers
    /\ RowCount(data) >= 3
    /\ data.Frames[1].MsMsType # 0 /\ data.Frames[1].nonempty
    /\ \A i \in 1..Len(ranges) : ~Holds(ranges[i], 1)
    /\ \A i \in 1..Len(fs[FinalFile]) : fs[FinalFile][i].frame # 1

\* C37: an individual job never raises over a record whose coord the plate
\* map lacks or labels NaN, and when it has ended without a failure of the
\* writer the file of every record with a label exists.
UnmappedRecordIsSkipped ==
    IndividualJob =>
        /\ err \notin {"KeyError", "TypeError"}
        /\ (pc \in {"done", "raised"} /\ err # "IOError") =>
                \A k \in 1..Len(list_of_scan_dicts(data)) :
                    LET s == list_of_scan_dicts(data)[k]
                    IN  Mapped(s) =>
                            Exists(fs, IndividualFile(args.plate_map_dict[s.coord],
                                                      s.coord))

\* an individual job has written the file of its first record, raised over
\* the second, whose coord the plate map lacks, and left the third, which
\* has a label, without a file
AbortedAfterFirstFile ==
    /\ IndividualJob /\ pc = "raised" /\ err = "KeyError"
    /\ Len(opened) = 1 /\ Complete(fs[opened[1]])
    /\ Len(list_of_scan_dicts(data)) = 3
    /\ LET s == list_of_scan_dicts(data)[3]
       IN  /\ Mapped(s)
           /\ ~Exists(fs, IndividualFile(args.plate_map_dict[s.coord], s.coord))

\* the source C38 describes for the metadata
ClaimedSource(metadata) ==
    IF "MaldiApplicationType" \in DOMAIN metadata
        THEN "matrix-assisted laser desorption ionization"
    ELSE IF metadata.InstrumentSourceType \in DOMAIN INSTRUMENT_SOURCE_TYPE
        THEN INSTRUMENT_SOURCE_TYPE[metadata.InstrumentSourceType]
    ELSE "electrospray ionization"

\* C38: for metadata with an InstrumentSourceType, write_mzml_metadata does
\* not raise, and the metadata it has written name the listed source of a
\* known source type without MALDI metadata, the MALDI source with MALDI
\* metadata, and the electrospray source otherwise.
SourceIsAlwaysDefined ==
    (job = "lcms" /\ "InstrumentSourceType" \in DOMAIN data.GlobalMetadata) =>
        /\ err = ""
        /\ pc = "loop" =>
                /\ fs[TmpFile][2].k = "fileDescription"
                /\ fs[TmpFile][2].source = ClaimedSource(data.GlobalMetadata)

\* the part of C38 that holds: a known source type without MALDI metadata
\* gets its listed source, and MALDI metadata get the MALDI source
KnownSourceIsWritten ==
    (/\ job = "lcms" /\ pc = "loop") =>
        /\ "InstrumentSourceType" \in DOMAIN data.GlobalMetadata
        /\ Len(fs[TmpFile]) >= 2
        /\ fs[TmpFile][2].source = ClaimedSource(data.GlobalMetadata)
        /\ \/ "MaldiApplicationType" \in DOMAIN data.GlobalMetadata
           \/ data.GlobalMetadata.InstrumentSourceType \in DOMAIN INSTRUMENT_SOURCE_TYPE

\* write_lcms_mzml has raised UnboundLocalError on an acquisition whose
\* InstrumentSourceType is not a known one and whose metadata name no
\* MaldiApplicationType
UnknownSourceRaises ==
    /\ job = "lcms" /\ pc = "raised" /\ err = "UnboundLocalError"
    /\ data.GlobalMetadata = [InstrumentSourceType |-> "99"]

====
